---- MODULE Spec2Model ----
(***************************************************************************)
(* Narration-synthesis orchestrator (tts.generate_audio_for_slides) and    *)
(* segment-timeline reconciler (assembler._make_segment,                   *)
(* assembler._make_video_segment) of marp2video / deck2video.              *)
(*                                                                         *)
(* Spec     : one run of generate_audio_for_slides, one step per model     *)
(*            call, chunk-loop exit, or operator prompt.                   *)
(* SegSpec  : one call of _make_segment / _make_video_segment on inputs    *)
(*            drawn from bounded sets.                                     *)
(* TextSpec : one call of apply_pronunciations, of the sentence grouping   *)
(*            of _generate_slide_audio, or of generate_silent_wav, on      *)
(*            inputs drawn from bounded sets; text is a sequence of        *)
(*            characters.                                                  *)
(* MainSpec : one run of main() in one of its three modes (full pipeline,  *)
(*            reassemble, redo-slides): validation, rendering, the audio   *)
(*            stage (the actions of Spec), assemble_video, cleanup.        *)
(*                                                                         *)
(* Time in SegSpec is counted in ticks of 20 microseconds, so that one     *)
(* millisecond is 50 ticks and the four-decimal rendering "%.4f" of a      *)
(* duration (steps of 0.1 ms = 5 ticks) never meets a rounding tie.        *)
(***************************************************************************)
EXTENDS Integers, Sequences, FiniteSets, TLC

\* ------------------------------------------------------------------ bounds
MaxSlides == 3
MaxSent == 4
MaxHoldMs == 3000
MaxAudio == 12
MaxVideo == 112
MaxPadMs == 1
MaxDeck == 3
MaxText == 4
MaxGroupSent == 7
MaxSilentTenths == 200
MaxAnswer == 3

\* The longest --redo-slides list with an item that is rejected as such.
MaxRejectedList == 2

\* ------------------------------------------------------- program constants
ChunkSize == 3
SampleRate == 24000

VARIABLES
    \* --- generate_audio_for_slides
    slides,         \* the input list of Slide records (index, notes)
    interactive,    \* the interactive flag
    hold_duration,  \* configured hold duration, in milliseconds
    env_device,     \* device the model lands on when it is loaded
    model,          \* "unloaded" | "loaded" | "none"
    device,         \* model.device: "gpu" | "cpu" | "none"
    on_gpu,         \* the on_gpu flag of generate_audio_for_slides
    pc,             \* position of the run
    k,              \* position of the for-loop in slides (1-based)
    phase,          \* which chunk loop is running: "first" | "retry" | "regen" | "idle"
    j,              \* next chunk of the running chunk loop (1-based)
    chunks,         \* waveform buffer of the running chunk loop
    files,          \* the audio artifacts under temp_dir, by path
    audio_paths,    \* the result list
    \* --- observation of the run (history)
    exc,            \* what the latest step's chunk loop raised: "none" | "oom" | "err"
    failJ,          \* chunk at which the latest step's failure was raised (0: none)
    callDev,        \* device the latest step's model call ran on ("none": no call)
    downgrades,     \* number of calls of _move_model_to_cpu so far
    retries,        \* per slide position: chunk loops started as post-downgrade retry
    op,             \* the operation the latest step performed
    log,            \* per slide position: how its first attempt and its retry ended
    played,         \* what the latest step handed to _play_audio (NoPlay: nothing)
    pronunciations, \* the pronunciation table: "none" | "table" | "malformed"
    rewrites,       \* per slide position: calls of apply_pronunciations on its notes
    flushes,        \* calls of the memory-release step in the latest step
    last_play,      \* the latest call of _play_audio for the current slide
    \* --- main() and assemble_video
    mode,           \* "full" | "reassemble" | "redo"
    deck,           \* the slides parsed from the markdown file
    videos_exist,   \* the screencast files the deck refers to exist
    redo_req,       \* slide_indices: the slide numbers parsed from slide_list
    slide_list,     \* args.redo_slides: the items of the comma-separated list
    keep_temp,      \* args.keep_temp
    user_temp,      \* user_temp: --temp-dir was given
    stage,          \* position of main()
    image_files,    \* numbers of the slide images in temp_dir
    images,         \* main's list of image paths
    audio_files,    \* main's list of audio paths
    video_paths,    \* main's list of screencast paths ("none": no screencast)
    segments,       \* assemble_video's list of encoded segments
    seg_disk,       \* segment files in temp_dir
    encodes,        \* every segment encode requested so far, in order
    concat_file,    \* lines of temp_dir/concat.txt (<<>>: not written)
    output,         \* the final video: "absent" | "written"
    temp_removed,   \* shutil.rmtree(temp_dir) has run
    \* --- _make_segment / _make_video_segment
    seg_in,         \* inputs of one segment call
    seg_out,        \* the ffmpeg request it built ("kind" = "none" before the call)
    \* --- apply_pronunciations, sentence grouping
    text_in,        \* inputs of one call
    text_out        \* its result ("kind" = "none" before the call)

ttsVars == <<slides, interactive, hold_duration, env_device, model, device,
             on_gpu, pc, k, phase, j, chunks, files, audio_paths,
             exc, failJ, callDev, downgrades, retries, op, log, played,
             pronunciations, rewrites, flushes, last_play>>
segVars == <<seg_in, seg_out, text_in, text_out>>
mainRest == <<mode, deck, videos_exist, redo_req, slide_list, keep_temp, user_temp, image_files, images,
              audio_files, video_paths, segments, seg_disk, encodes,
              concat_file, output, temp_removed>>
mainVars == <<mode, deck, videos_exist, redo_req, slide_list, keep_temp, user_temp, stage, image_files,
              images, audio_files, video_paths, segments, seg_disk, encodes,
              concat_file, output, temp_removed>>
vars == <<slides, interactive, hold_duration, env_device, model, device,
          on_gpu, pc, k, phase, j, chunks, files, audio_paths,
          exc, failJ, callDev, downgrades, retries, op, log, played,
          pronunciations, rewrites, flushes, last_play,
          seg_in, seg_out, text_in, text_out,
          mode, deck, videos_exist, redo_req, slide_list, keep_temp, user_temp, stage,
          image_files,
          images, audio_files, video_paths, segments, seg_disk, encodes,
          concat_file, output, temp_removed>>

\* ===================================================================== data

\* Slide.notes: None, "" (no sentence, falsy), whitespace only (no
\* sentence, truthy), or text of nsent >= 1 sentences.
NoNotes == [present |-> FALSE, truthy |-> FALSE, nsent |-> 0]
EmptyNotes == [present |-> TRUE, truthy |-> FALSE, nsent |-> 0]
BlankNotes == [present |-> TRUE, truthy |-> TRUE, nsent |-> 0]
TextNotes(n) == [present |-> TRUE, truthy |-> TRUE, nsent |-> n]

NoteChoices == {NoNotes, EmptyNotes, BlankNotes, TextNotes(1), TextNotes(MaxSent)}

\* f"{index:03d}": the decimal digits of index, zero-padded to width 3.
RECURSIVE Digits(_)
Digits(n) == IF n < 10 THEN <<n>> ELSE Append(Digits(n \div 10), n % 10)

Fmt03d(n) ==
    LET d == Digits(n)
    IN  IF Len(d) >= 3 THEN d
        ELSE [i \in 1..3 |-> IF i <= 3 - Len(d) THEN 0 ELSE d[i - (3 - Len(d))]]

\* temp_dir / f"audio_{slide.index:03d}.wav"
AudioPath(index) == <<"audio">> \o Fmt03d(index)

\* The largest slide number of any run.
MaxIndex == IF MaxSlides >= MaxDeck THEN MaxSlides ELSE MaxDeck

AllPaths == {AudioPath(i) : i \in 1..MaxIndex}

Absent == [kind |-> "absent", samples |-> 0, wav |-> <<>>]

\* Variant: the RIFF size field holds the size of the whole file.
SilentWavFileRiffTotal(tenths, sample_rate) ==
    LET num_channels == 1
        bits_per_sample == 16
        num_samples == (sample_rate * tenths) \div 10000
        data_size == num_samples * num_channels * (bits_per_sample \div 8)
    IN  [riff_size |-> 44 + data_size,
         fmt_size |-> 16,
         format |-> 1,
         channels |-> num_channels,
         sample_rate |-> sample_rate,
         byte_rate |-> (sample_rate * num_channels * bits_per_sample) \div 8,
         block_align |-> (num_channels * bits_per_sample) \div 8,
         bits_per_sample |-> bits_per_sample,
         data_size |-> data_size,
         num_samples |-> num_samples,
         payload_byte |-> 0,
         file_size |-> (4 + 4 + 4) + (4 + 4 + 2 + 2 + 4 + 4 + 2 + 2) + (4 + 4)
                         + data_size]

\* generate_silent_wav(path, duration, sample_rate), the duration counted
\* in tenths of a millisecond: the fields it packs, in the order of its writes, and
\* the number of bytes written (4 per tag and per "<I" field, 2 per "<H"
\* field, then the payload); int() drops the fraction of a sample.
SilentWavFile(tenths, sample_rate) ==
    LET num_channels == 1
        bits_per_sample == 16
        num_samples == (sample_rate * tenths) \div 10000
        data_size == num_samples * num_channels * (bits_per_sample \div 8)
    IN  [riff_size |-> 36 + data_size,
         fmt_size |-> 16,
         format |-> 1,
         channels |-> num_channels,
         sample_rate |-> sample_rate,
         byte_rate |-> (sample_rate * num_channels * bits_per_sample) \div 8,
         block_align |-> (num_channels * bits_per_sample) \div 8,
         bits_per_sample |-> bits_per_sample,
         data_size |-> data_size,
         num_samples |-> num_samples,
         payload_byte |-> 0,
         file_size |-> (4 + 4 + 4) + (4 + 4 + 2 + 2 + 4 + 4 + 2 + 2) + (4 + 4)
                         + data_size]

\* Variant: one second of silence whatever the duration asked for.
SilentWavOneSecond(ms) ==
    [kind |-> "silent", samples |-> SampleRate, wav |-> <<>>]

\* generate_silent_wav(path, duration): num_samples = int(sample_rate *
\* duration), data_size = num_samples * num_channels * (bits_per_sample // 8),
\* and the payload is b"\x00" * data_size.
generate_silent_wav(ms) ==
    LET w == SilentWavFile(10 * ms, SampleRate)
    IN  [kind |-> "silent", samples |-> w.num_samples, wav |-> <<>>,
         payload |-> [size |-> w.data_size, byte |-> w.payload_byte]]

\* Variant: an existing file is left as it is.
WriteUnlessExists(path, content) ==
    files' = [files EXCEPT ![path] = IF @.kind = "absent" THEN content ELSE @]

\* open(path, "wb") and the writes that follow: the file holds the new
\* content, whatever it held before.
WriteFile(path, content) ==
    files' = [files EXCEPT ![path] = content]

\* torchaudio.save(out_path, combined, sr)
SavedSpeech(combined) == [kind |-> "speech", samples |-> 0, wav |-> combined]

\* len(range(0, len(sentences), 3))
NChunks(nsent) == (nsent + ChunkSize - 1) \div ChunkSize

\* _is_oom(exc)
IsOom(e) == e = "oom"

CurSlide == slides[k]
CurPath == AudioPath(CurSlide.index)
CurChunks == NChunks(CurSlide.notes.nsent)

\* Strictly increasing index lists over 1..MaxSlides: the parsed deck, or
\* the subset of it handed over in redo-slides mode.
RECURSIVE SortedSeq(_)
SortedSeq(S) ==
    IF S = {} THEN <<>>
    ELSE LET m == CHOOSE x \in S : \A y \in S : x <= y
         IN  <<m>> \o SortedSeq(S \ {m})

SlideLists ==
    UNION { LET idx == SortedSeq(S)
            IN  { [a \in 1..Len(idx) |-> [index |-> idx[a], notes |-> ns[a]]]
                  : ns \in [1..Len(idx) -> NoteChoices] }
            : S \in (SUBSET (1..MaxSlides)) \ {{}} }

\* ================================================================== actions

NoSeg == [kind |-> "none"]

\* Observation: the outcome of a slide's first chunk loop ("none" while it
\* has not ended, "ok", "oom", "err"), the device the model was on when it
\* ended, and the outcome of the post-downgrade retry.
NoLog == [first |-> "none", firstDev |-> "none", retry |-> "none"]

\* Observation: the path and the content _play_audio was called on.
NoPlay == [path |-> <<>>, art |-> Absent]

\* Observation: no call of _play_audio yet for the current slide.
NoHeard == [art |-> Absent, heard |-> FALSE]

\* Variant: the player is not called.
PlayAudioSkipped(path, art) ==
    /\ played' = NoPlay
    /\ UNCHANGED last_play

\* _play_audio(path): the platform's player is run on the file; on a
\* platform without a known player only a warning is printed, and the
\* player's return code is not looked at, so the call returns whether or
\* not the operator heard the audio.
PlayAudio(path, art) ==
    /\ played' = [path |-> path, art |-> art]
    /\ \E heard \in BOOLEAN : last_play' = [art |-> art, heard |-> heard]

\* main() is not running: the function under study is called on its own.
NoMain(st) ==
    /\ mode = "none"
    /\ deck = <<>>
    /\ videos_exist = TRUE
    /\ redo_req = {}
    /\ slide_list = {}
    /\ keep_temp = FALSE
    /\ user_temp = FALSE
    /\ stage = st
    /\ image_files = {}
    /\ images = <<>>
    /\ audio_files = <<>>
    /\ video_paths = <<>>
    /\ segments = <<>>
    /\ seg_disk = {}
    /\ encodes = <<>>
    /\ concat_file = <<>>
    /\ output = "absent"
    /\ temp_removed = FALSE

LogOutcome(res) ==
    CASE phase = "first" -> [log EXCEPT ![k].first = res, ![k].firstDev = device]
      [] phase = "retry" -> [log EXCEPT ![k].retry = res]
      [] OTHER -> log

Init ==
    /\ slides \in SlideLists
    /\ interactive \in BOOLEAN
    /\ hold_duration \in {0, MaxHoldMs}
    /\ env_device \in {"gpu", "cpu"}
    /\ model = "unloaded"
    /\ device = "none"
    /\ on_gpu = FALSE
    /\ pc = "start"
    /\ k = 1
    /\ phase = "idle"
    /\ j = 1
    /\ chunks = <<>>
    /\ files = [p \in AllPaths |-> Absent]
    /\ audio_paths = <<>>
    /\ exc = "none"
    /\ failJ = 0
    /\ callDev = "none"
    /\ downgrades = 0
    /\ retries = [a \in 1..Len(slides) |-> 0]
    /\ op = "init"
    /\ log = [a \in 1..Len(slides) |-> NoLog]
    /\ played = NoPlay
    /\ last_play = NoHeard
    /\ pronunciations \in {"none", "table"}
    /\ rewrites = [a \in 1..Len(slides) |-> 0]
    /\ flushes = 0
    /\ seg_in = NoSeg
    /\ seg_out = NoSeg
    /\ text_in = NoSeg
    /\ text_out = NoSeg
    /\ NoMain("audio")

\* Variant: the model is loaded whatever the slides hold.
BeginEager ==
    /\ pc = "start"
    /\ model' = "loaded"
    /\ device' = env_device
    /\ on_gpu' = (env_device # "cpu")
    /\ pc' = "loop"
    /\ exc' = "none" /\ failJ' = 0 /\ callDev' = "none" /\ op' = "begin"
    /\ flushes' = 0
    /\ UNCHANGED log
    /\ played' = NoPlay /\ UNCHANGED last_play
    /\ UNCHANGED <<slides, interactive, hold_duration, env_device, k, phase, j,
                   chunks, files, audio_paths, downgrades, retries,
                   pronunciations, rewrites>>
    /\ UNCHANGED segVars
    /\ UNCHANGED mainVars

\* Lines 203-227: lazy model load, on_gpu, empty result list.
Begin ==
    /\ pc = "start"
    /\ LET need_tts == \E a \in 1..Len(slides) : slides[a].notes.truthy
       IN  /\ model' = IF need_tts THEN "loaded" ELSE "none"
           /\ device' = IF need_tts THEN env_device ELSE "none"
           /\ on_gpu' = (need_tts /\ env_device # "cpu")
    /\ pc' = "loop"
    /\ exc' = "none" /\ failJ' = 0 /\ callDev' = "none" /\ op' = "begin"
    /\ flushes' = 0
    /\ UNCHANGED log
    /\ played' = NoPlay /\ UNCHANGED last_play
    /\ UNCHANGED <<slides, interactive, hold_duration, env_device, k, phase, j,
                   chunks, files, audio_paths, downgrades, retries,
                   pronunciations, rewrites>>
    /\ UNCHANGED segVars
    /\ UNCHANGED mainVars


inputVars == <<slides, interactive, hold_duration, env_device, model,
               pronunciations>>

\* Variant: the path is appended and the same slide taken up again.
AppendAndStay ==
    /\ audio_paths' = Append(audio_paths, CurPath)
    /\ k' = k
    /\ pc' = "loop"
    /\ phase' = "idle"
    /\ j' = 1
    /\ chunks' = <<>>

\* audio_paths.append(out_path) and the step of the for loop (line 315, and
\* lines 270-271, 277-278 before "continue").
AppendAndAdvance ==
    /\ audio_paths' = Append(audio_paths, CurPath)
    /\ k' = k + 1
    /\ pc' = "loop"
    /\ phase' = "idle"
    /\ j' = 1
    /\ chunks' = <<>>

\* Variant: the fallback writes the file but forgets the append.
SubstituteSilenceNoAppend ==
    /\ files' = [files EXCEPT ![CurPath] = generate_silent_wav(hold_duration)]
    /\ audio_paths' = audio_paths
    /\ k' = k + 1
    /\ pc' = "loop"
    /\ phase' = "idle"
    /\ j' = 1
    /\ chunks' = <<>>

\* generate_silent_wav(out_path, hold_duration); audio_paths.append(out_path)
SubstituteSilence ==
    /\ WriteFile(CurPath, generate_silent_wav(hold_duration))
    /\ AppendAndAdvance

\* Variant: the loop resumes at the chunk that failed, keeping the buffer.
ResumeChunkLoop(ph) ==
    /\ phase' = ph
    /\ j' = j
    /\ chunks' = chunks
    /\ pc' = "gen"

\* Entry of _generate_slide_audio: chunks = [], loop from the first group.
StartChunkLoop(ph) ==
    /\ phase' = ph
    /\ j' = 1
    /\ chunks' = <<>>
    /\ pc' = "gen"

\* Variant: the components are moved but model.device is not updated.
MoveModelKeepDevice ==
    /\ device' = device
    /\ downgrades' = downgrades + 1

\* _move_model_to_cpu(model): model.device = "cpu"
MoveModelToCpu ==
    /\ device' = "cpu"
    /\ downgrades' = downgrades + 1

\* Variant: the on_gpu flag is not cleared after the move.
DowngradeKeepFlag ==
    /\ MoveModelToCpu
    /\ on_gpu' = on_gpu
    /\ retries' = [retries EXCEPT ![k] = @ + 1]
    /\ StartChunkLoop("retry")
    /\ UNCHANGED <<k, files, audio_paths>>

\* Lines 256-264: fall back to CPU and retry this slide.
DowngradeAndRetry ==
    /\ MoveModelToCpu
    /\ on_gpu' = FALSE
    /\ retries' = [retries EXCEPT ![k] = @ + 1]
    /\ StartChunkLoop("retry")
    /\ UNCHANGED <<k, files, audio_paths>>

\* Variant: an error that is not out-of-memory on the accelerator is
\* re-raised instead of being replaced by silence.
OnFirstFailureReraise(e) ==
    IF on_gpu /\ IsOom(e)
    THEN DowngradeAndRetry
    ELSE /\ pc' = "aborted"
         /\ UNCHANGED <<k, phase, j, chunks, files, audio_paths, device, on_gpu,
                        downgrades, retries>>

\* Lines 255-278: except-clause of the first attempt.
OnFirstFailure(e) ==
    IF on_gpu /\ IsOom(e)
    THEN DowngradeAndRetry
    ELSE /\ SubstituteSilence
         /\ UNCHANGED <<device, on_gpu, downgrades, retries>>

\* Variant: what the failed retry had generated is saved as the slide's
\* audio.
OnRetryFailureSavesPartial(e) ==
    /\ files' = [files EXCEPT ![CurPath] =
                    IF chunks = <<>> THEN generate_silent_wav(hold_duration)
                    ELSE SavedSpeech(chunks)]
    /\ AppendAndAdvance
    /\ UNCHANGED <<device, on_gpu, downgrades, retries>>

\* Lines 265-271: except-clause of the post-downgrade retry.
OnRetryFailure(e) ==
    /\ SubstituteSilence
    /\ UNCHANGED <<device, on_gpu, downgrades, retries>>

\* Variant: a failed regeneration is replaced by silence like a failed
\* first attempt.
OnRegenFailureSilence(e) ==
    /\ SubstituteSilence
    /\ UNCHANGED <<device, on_gpu, downgrades, retries>>

\* Lines 306-308: a failed regeneration keeps the previous audio and
\* leaves the review loop.
OnRegenFailure(e) ==
    /\ AppendAndAdvance
    /\ UNCHANGED <<files, device, on_gpu, downgrades, retries>>

\* Variant: a failed regeneration is handled like a failed first attempt.
RaiseRegenAsFirst(e) ==
    CASE phase = "first" -> OnFirstFailure(e)
      [] phase = "retry" -> OnRetryFailure(e)
      [] phase = "regen" -> OnFirstFailure(e)

\* _generate_slide_audio raises e (lines 175-178) into its caller.
Raise(e) ==
    CASE phase = "first" -> OnFirstFailure(e)
      [] phase = "retry" -> OnRetryFailure(e)
      [] phase = "regen" -> OnRegenFailure(e)

\* Variant: after a regeneration the waveform is saved and the review of
\* the slide ends, without playback or prompt.
SaveCombinedLeavesAfterRegen ==
    /\ files' = [files EXCEPT ![CurPath] = SavedSpeech(chunks)]
    /\ IF interactive /\ phase # "regen"
       THEN /\ PlayAudio(CurPath, SavedSpeech(chunks))
            /\ pc' = "prompt"
            /\ phase' = "idle"
            /\ j' = 1
            /\ chunks' = <<>>
            /\ UNCHANGED <<k, audio_paths>>
       ELSE /\ played' = NoPlay /\ UNCHANGED last_play
            /\ AppendAndAdvance
    /\ UNCHANGED <<device, on_gpu, downgrades, retries>>

\* Lines 280-286 and 309-313: save the combined waveform; in interactive
\* mode play it and wait for the operator, otherwise append and go on.
SaveCombined ==
    /\ files' = [files EXCEPT ![CurPath] = SavedSpeech(chunks)]
    /\ IF interactive
       THEN /\ PlayAudio(CurPath, SavedSpeech(chunks))
            /\ pc' = "prompt"
            /\ phase' = "idle"
            /\ j' = 1
            /\ chunks' = <<>>
            /\ UNCHANGED <<k, audio_paths>>
       ELSE /\ played' = NoPlay /\ UNCHANGED last_play
            /\ AppendAndAdvance
    /\ UNCHANGED <<device, on_gpu, downgrades, retries>>

\* Line 229 with the list exhausted, line 317.
Return ==
    /\ pc = "loop"
    /\ k > Len(slides)
    /\ pc' = "returned"
    /\ exc' = "none" /\ failJ' = 0 /\ callDev' = "none" /\ op' = "return"
    /\ flushes' = 0
    /\ UNCHANGED rewrites
    /\ UNCHANGED log
    /\ played' = NoPlay /\ UNCHANGED last_play
    /\ UNCHANGED mainVars
    /\ UNCHANGED <<k, phase, j, chunks, files, audio_paths, device, on_gpu,
                   downgrades, retries>>
    /\ UNCHANGED inputVars
    /\ UNCHANGED segVars

\* Variant: in interactive mode the silent artifact of a slide without
\* notes is played and put to the operator like a narrated one.
SilentSlideReviewed ==
    /\ pc = "loop"
    /\ k <= Len(slides)
    /\ ~CurSlide.notes.present
    /\ files' = [files EXCEPT ![CurPath] = generate_silent_wav(hold_duration)]
    /\ IF interactive
       THEN /\ PlayAudio(CurPath, generate_silent_wav(hold_duration))
            /\ pc' = "prompt"
            /\ UNCHANGED <<k, phase, j, chunks, audio_paths>>
       ELSE /\ played' = NoPlay /\ last_play' = NoHeard
            /\ AppendAndAdvance
    /\ exc' = "none" /\ failJ' = 0 /\ callDev' = "none" /\ op' = "silent"
    /\ flushes' = 0
    /\ UNCHANGED rewrites
    /\ UNCHANGED log
    /\ UNCHANGED mainVars
    /\ UNCHANGED <<device, on_gpu, downgrades, retries>>
    /\ UNCHANGED inputVars
    /\ UNCHANGED segVars

\* Lines 232-235, 315: a slide without notes.
SilentSlide ==
    /\ pc = "loop"
    /\ k <= Len(slides)
    /\ ~CurSlide.notes.present
    /\ SubstituteSilence
    /\ exc' = "none" /\ failJ' = 0 /\ callDev' = "none" /\ op' = "silent"
    /\ flushes' = 0
    /\ UNCHANGED rewrites
    /\ UNCHANGED log
    /\ played' = NoPlay /\ last_play' = NoHeard
    /\ UNCHANGED mainVars
    /\ UNCHANGED <<device, on_gpu, downgrades, retries>>
    /\ UNCHANGED inputVars
    /\ UNCHANGED segVars

\* Variant: the rewriter runs over its own output once more.
RewriteNotesTwice ==
    rewrites' = [rewrites EXCEPT ![k] = IF pronunciations = "table" THEN @ + 2 ELSE @]

\* Lines 238-240: if pronunciations: slide.notes =
\* apply_pronunciations(slide.notes, pronunciations), in place.
RewriteNotes ==
    rewrites' = [rewrites EXCEPT ![k] = IF pronunciations = "table" THEN @ + 1 ELSE @]

\* Lines 236-254: a slide with notes enters its first chunk loop.
BeginSlide ==
    /\ pc = "loop"
    /\ k <= Len(slides)
    /\ CurSlide.notes.present
    /\ RewriteNotes
    /\ StartChunkLoop("first")
    /\ exc' = "none" /\ failJ' = 0 /\ callDev' = "none" /\ op' = "slide"
    /\ flushes' = 0
    /\ UNCHANGED log
    /\ played' = NoPlay /\ last_play' = NoHeard
    /\ UNCHANGED mainVars
    /\ UNCHANGED <<k, files, audio_paths, device, on_gpu, downgrades, retries>>
    /\ UNCHANGED inputVars
    /\ UNCHANGED segVars

\* Variant: the waveform is moved to the host and the loop goes on without
\* the release step.
NoFlushAfterChunk == flushes' = 0

\* Lines 165-167: chunks.append(wav.cpu()); del wav; flush_fn()
FlushAfterChunk == flushes' = 1

\* Lines 175-178: except Exception: del chunks; flush_fn(); raise
FlushOnRaise == flushes' = 1

\* Lines 171-174 and 280-282 (309-311 after a regeneration): flush_fn()
\* after torch.cat, _flush_gpu() after torchaudio.save.
FlushAfterCombineAndSave == flushes' = 2

\* Lines 155-169: one model.generate call of the chunk loop; it returns a
\* waveform or raises (out of memory, or anything else).
GenChunk ==
    /\ pc = "gen"
    /\ j <= CurChunks
    /\ callDev' = device
    /\ op' = "chunk"
    /\ played' = NoPlay /\ UNCHANGED last_play
    /\ UNCHANGED mainVars
    /\ \E outcome \in {"ok", "oom", "err"} :
         IF outcome = "ok"
         THEN /\ chunks' = Append(chunks, [chunk |-> j, phase |-> phase,
                                            text |-> rewrites[k]])
              /\ j' = j + 1
              /\ exc' = "none" /\ failJ' = 0
              /\ FlushAfterChunk
              /\ UNCHANGED <<pc, k, phase, files, audio_paths, device, on_gpu,
                             downgrades, retries, log>>
         ELSE /\ exc' = outcome /\ failJ' = j
              /\ log' = LogOutcome(outcome)
              /\ FlushOnRaise
              /\ Raise(outcome)
    /\ UNCHANGED rewrites
    /\ UNCHANGED inputVars
    /\ UNCHANGED segVars

\* Variant: torch.cat of an empty list returns an empty waveform, which is
\* saved like any other.
CombineEmptyAsSpeech ==
    /\ pc = "gen"
    /\ j > CurChunks
    /\ callDev' = "none"
    /\ op' = "combine"
    /\ exc' = "none" /\ failJ' = 0
    /\ log' = LogOutcome("ok")
    /\ FlushAfterCombineAndSave
    /\ SaveCombined
    /\ UNCHANGED rewrites
    /\ UNCHANGED mainVars
    /\ UNCHANGED inputVars
    /\ UNCHANGED segVars

\* Lines 171-174: after the last chunk, torch.cat(chunks); it raises on an
\* empty list (notes without a sentence), otherwise the slide is saved.
Combine ==
    /\ pc = "gen"
    /\ j > CurChunks
    /\ callDev' = "none"
    /\ op' = "combine"
    /\ IF chunks = <<>>
       THEN /\ exc' = "err" /\ failJ' = 0
            /\ log' = LogOutcome("err")
            /\ played' = NoPlay /\ UNCHANGED last_play
            /\ FlushOnRaise
            /\ Raise("err")
       ELSE /\ exc' = "none" /\ failJ' = 0
            /\ log' = LogOutcome("ok")
            /\ FlushAfterCombineAndSave
            /\ SaveCombined
    /\ UNCHANGED rewrites
    /\ UNCHANGED mainVars
    /\ UNCHANGED inputVars
    /\ UNCHANGED segVars

\* str.lower(), and the case folding of re.IGNORECASE, on the characters
\* in use.
Lower(c) ==
    CASE c = "S" -> "s"
      [] c = "Q" -> "q"
      [] c = "X" -> "x"
      [] c = "Y" -> "y"
      [] c = "R" -> "r"
      [] OTHER -> c

\* str.strip(): leading, then trailing whitespace is dropped.
RECURSIVE StripLeft(_)
StripLeft(t) ==
    IF t # <<>> /\ Head(t) = " " THEN StripLeft(Tail(t)) ELSE t

RECURSIVE StripRight(_)
StripRight(t) ==
    IF t # <<>> /\ t[Len(t)] = " " THEN StripRight(SubSeq(t, 1, Len(t) - 1)) ELSE t

\* Line 287: input(...).strip().lower()
Normalize(raw) ==
    LET stripped == StripRight(StripLeft(raw))
    IN  [i \in 1..Len(stripped) |-> Lower(stripped[i])]

\* Variant: only "n" regenerates; any other unknown answer is ignored.
ReviewChoiceStrict(raw) ==
    LET choice == Normalize(raw)
    IN  IF choice \in {<<>>, <<"y">>} THEN "keep"
        ELSE IF choice = <<"r">> THEN "replay"
        ELSE IF choice = <<"q">> THEN "quit"
        ELSE IF choice = <<"n">> THEN "regenerate"
        ELSE "ignored"

\* Lines 287-299: the branch the answer takes.
ReviewChoice(raw) ==
    LET choice == Normalize(raw)
    IN  IF choice \in {<<>>, <<"y">>} THEN "keep"
        ELSE IF choice = <<"r">> THEN "replay"
        ELSE IF choice = <<"q">> THEN "quit"
        ELSE "regenerate"

\* What the operator types at the prompt: each of the four known answers
\* plain or with blanks and capitals, "n", and answers the prompt does not
\* offer.
Choices ==
    {<<>>, <<" ">>, <<"y">>, <<" ", "Y", " ">>, <<"r">>, <<"R", " ">>,
     <<"q">>, <<" ", "Q">>, <<"n">>, <<"x">>, <<"y", "y">>, <<"y", " ", "q">>}

\* Variant: the answer is taken but the review of the slide goes on.
KeepStays ==
    /\ op' = "keep"
    /\ played' = NoPlay /\ UNCHANGED last_play
    /\ UNCHANGED <<pc, k, phase, j, chunks, files, audio_paths,
                   device, on_gpu, downgrades, retries, stage>>

\* Lines 289-291: "" or "y" leaves the review loop; line 315 appends.
Keep ==
    /\ op' = "keep"
    /\ played' = NoPlay /\ UNCHANGED last_play
    /\ AppendAndAdvance
    /\ UNCHANGED <<files, device, on_gpu, downgrades, retries, stage>>

\* Variant: the artifact is played and the review of the slide ends.
ReplayThenLeave ==
    /\ op' = "replay"
    /\ PlayAudio(CurPath, files[CurPath])
    /\ AppendAndAdvance
    /\ UNCHANGED <<files, device, on_gpu, downgrades, retries, stage>>

\* Lines 292-294: "r" plays out_path and prompts again.
Replay ==
    /\ op' = "replay"
    /\ PlayAudio(CurPath, files[CurPath])
    /\ UNCHANGED <<pc, k, phase, j, chunks, files, audio_paths,
                   device, on_gpu, downgrades, retries, stage>>

\* Variant: quit only leaves the review of the slide.
QuitLeavesReview ==
    /\ op' = "quit"
    /\ played' = NoPlay /\ UNCHANGED last_play
    /\ AppendAndAdvance
    /\ UNCHANGED <<files, device, on_gpu, downgrades, retries, stage>>

\* Lines 295-298: "q" is sys.exit(0); SystemExit leaves main() through
\* neither its except Exception clause nor its else clause.
Quit ==
    /\ op' = "quit"
    /\ played' = NoPlay /\ UNCHANGED last_play
    /\ pc' = "exited"
    /\ stage' = "exit0"
    /\ UNCHANGED <<k, phase, j, chunks, files, audio_paths,
                   device, on_gpu, downgrades, retries>>

\* Lines 299-304: any other answer calls _generate_slide_audio again.
Regenerate ==
    /\ op' = "regenerate"
    /\ played' = NoPlay /\ UNCHANGED last_play
    /\ StartChunkLoop("regen")
    /\ UNCHANGED <<k, files, audio_paths, device, on_gpu,
                   downgrades, retries, stage>>

Prompt ==
    /\ pc = "prompt"
    /\ exc' = "none" /\ failJ' = 0 /\ callDev' = "none"
    /\ flushes' = 0
    /\ UNCHANGED rewrites
    /\ UNCHANGED log
    /\ \E choice \in Choices :
         CASE ReviewChoice(choice) = "keep" -> Keep
           [] ReviewChoice(choice) = "replay" -> Replay
           [] ReviewChoice(choice) = "quit" -> Quit
           [] OTHER -> Regenerate
    /\ UNCHANGED inputVars
    /\ UNCHANGED segVars
    /\ UNCHANGED mainRest

Next ==
    \/ Begin
    \/ Return
    \/ SilentSlide
    \/ BeginSlide
    \/ GenChunk
    \/ Combine
    \/ Prompt

Spec == Init /\ [][Next]_vars

\* ======================================= _make_segment, _make_video_segment

Max(a, b) == IF a >= b THEN a ELSE b

\* pad_s = audio_padding_ms / 1000, in ticks (50 ticks per millisecond)
PadS(ms) == ms * 50

\* f"{x:.4f}": x rounded to the nearest 0.0001 s; the result counts
\* units of 0.1 ms (5 ticks each).
Fmt4(t) == (t + 2) \div 5

\* temp_dir / f"segment_{index:03d}.ts"
SegmentPath(index) == <<"segment">> \o Fmt03d(index)

\* Variant: the padding is counted once.
StillDurationSinglePad(audio_dur, ms) == audio_dur + PadS(ms)

\* _make_segment lines 31-33: duration = audio duration + 2 * pad_s
StillDuration(audio_dur, ms) == audio_dur + 2 * PadS(ms)

\* Variant: the longer of the clip and the padded audio.
TargetDurOfPadded(audio_dur, video_dur, ms) ==
    Max(audio_dur + 2 * PadS(ms), video_dur)

\* Variant: the clip alone sets the target, whatever the audio lasts.
TargetDurClipOnly(audio_dur, video_dur, ms) == video_dur + 2 * PadS(ms)

\* Variant: the padding is counted once.
TargetDurSinglePad(audio_dur, video_dur, ms) ==
    Max(audio_dur, video_dur) + PadS(ms)

\* _make_video_segment line 82
TargetDur(audio_dur, video_dur, ms) == Max(audio_dur, video_dur) + 2 * PadS(ms)

\* _make_video_segment line 88
PaddedAudioDur(audio_dur, ms) == audio_dur + 2 * PadS(ms)

\* Variant: a tie also freezes.
NeedsFreezeOrTie(padded_audio_dur, video_dur) == padded_audio_dur >= video_dur

\* _make_video_segment line 89: is tpad needed
NeedsFreeze(padded_audio_dur, video_dur) == padded_audio_dur > video_dur

\* Variant: the frame is held for the whole padded audio.
FreezeSecondsWholeAudio(padded_audio_dur, video_dur) == padded_audio_dur

\* _make_video_segment line 90
FreezeSeconds(padded_audio_dur, video_dur) == padded_audio_dur - video_dur

\* The inputs of one call: the slide number, the durations ffprobe reports
\* for the audio artifact and for the screencast (has_video = FALSE: the
\* slide has none), and the configured padding.
SegInputs ==
    [index : 1..MaxSlides,
     audio_dur : 0..MaxAudio,
     has_video : {TRUE},
     video_dur : 0..MaxVideo,
     audio_padding_ms : 0..MaxPadMs]
    \cup
    [index : 1..MaxSlides,
     audio_dur : 0..MaxAudio,
     has_video : {FALSE},
     video_dur : {0},
     audio_padding_ms : 0..MaxPadMs]

SegInit ==
    /\ slides = <<>>
    /\ interactive = FALSE
    /\ hold_duration = 0
    /\ env_device = "cpu"
    /\ model = "unloaded"
    /\ device = "none"
    /\ on_gpu = FALSE
    /\ pc = "segment"
    /\ k = 1
    /\ phase = "idle"
    /\ j = 1
    /\ chunks = <<>>
    /\ files = [p \in AllPaths |-> Absent]
    /\ audio_paths = <<>>
    /\ exc = "none"
    /\ failJ = 0
    /\ callDev = "none"
    /\ downgrades = 0
    /\ retries = <<>>
    /\ op = "init"
    /\ log = <<>>
    /\ played = NoPlay
    /\ last_play = NoHeard
    /\ pronunciations = "none"
    /\ rewrites = <<>>
    /\ flushes = 0
    /\ text_in = NoSeg
    /\ text_out = NoSeg
    /\ seg_in \in SegInputs
    /\ seg_out = NoSeg
    /\ NoMain("segment")

\* _make_segment: the ffmpeg request for a still-image segment.
MakeSegment ==
    /\ seg_out = NoSeg
    /\ ~seg_in.has_video
    /\ LET duration == StillDuration(seg_in.audio_dur, seg_in.audio_padding_ms)
       IN  seg_out' = [kind |-> "still",
                       segment |-> SegmentPath(seg_in.index),
                       duration |-> duration,
                       t_arg |-> Fmt4(duration),
                       tpad |-> FALSE,
                       freeze |-> 0,
                       stop_arg |-> 0,
                       adelay |-> seg_in.audio_padding_ms > 0,
                       shortest |-> TRUE]
    /\ UNCHANGED <<seg_in, text_in, text_out>>
    /\ UNCHANGED ttsVars
    /\ UNCHANGED mainVars

\* _make_video_segment: the ffmpeg request for a screencast segment.
MakeVideoSegment ==
    /\ seg_out = NoSeg
    /\ seg_in.has_video
    /\ LET audio_dur == seg_in.audio_dur
           video_dur == seg_in.video_dur
           target_dur == TargetDur(audio_dur, video_dur, seg_in.audio_padding_ms)
           padded_audio_dur == PaddedAudioDur(audio_dur, seg_in.audio_padding_ms)
           tpad == NeedsFreeze(padded_audio_dur, video_dur)
           freeze_seconds == IF tpad THEN FreezeSeconds(padded_audio_dur, video_dur)
                             ELSE 0
       IN  seg_out' = [kind |-> "video",
                       segment |-> SegmentPath(seg_in.index),
                       duration |-> target_dur,
                       t_arg |-> Fmt4(target_dur),
                       tpad |-> tpad,
                       freeze |-> freeze_seconds,
                       stop_arg |-> Fmt4(freeze_seconds),
                       adelay |-> seg_in.audio_padding_ms > 0,
                       shortest |-> FALSE]
    /\ UNCHANGED <<seg_in, text_in, text_out>>
    /\ UNCHANGED ttsVars
    /\ UNCHANGED mainVars

SegNext ==
    \/ MakeSegment
    \/ MakeVideoSegment

SegSpec == SegInit /\ [][SegNext]_vars

\* ============================ apply_pronunciations and sentence grouping

\* Characters of the notes: a letter in both cases, a letter in one case,
\* and the space.
Alphabet == {"s", "S", "q", " "}

Texts == UNION {[1..n -> Alphabet] : n \in 0..MaxText}

\* Keys of the table: two of one letter, and a longer one, in mixed case,
\* that contains the first.
Words == {<<"q">>, <<"x">>, <<"S", "q">>}

Respellings == {<<"x">>, <<"q", "x">>}

\* The table is a dict: distinct keys, in insertion order.
Tables ==
    UNION { {m \in [1..n -> [word : Words, respelling : Respellings]] :
               \A a, b \in 1..n : a # b => m[a].word # m[b].word}
            : n \in 0..Cardinality(Words) }

\* The pattern re.escape(word) matches text at position i.
MatchesAt(text, i, word) ==
    /\ i + Len(word) - 1 <= Len(text)
    /\ \A e \in 1..Len(word) : Lower(text[i + e - 1]) = Lower(word[e])

\* pattern.sub(repl, text) from position i on: the leftmost match is
\* replaced and the scan resumes behind it; an unmatched character is
\* copied.
RECURSIVE SubFrom(_, _, _, _)
SubFrom(word, repl, text, i) ==
    IF i > Len(text) THEN <<>>
    ELSE IF MatchesAt(text, i, word)
         THEN repl \o SubFrom(word, repl, text, i + Len(word))
         ELSE <<text[i]>> \o SubFrom(word, repl, text, i + 1)

\* re.compile(re.escape(word), re.IGNORECASE).sub(mapping[word], text)
Sub(word, repl, text) == SubFrom(word, repl, text, 1)

DropAt(m, a) == [b \in 1..(Len(m) - 1) |-> IF b < a THEN m[b] ELSE m[b + 1]]

\* Variant: shorter keys first.
RECURSIVE SortedByLenAsc(_)
SortedByLenAsc(m) ==
    IF m = <<>> THEN <<>>
    ELSE LET a == CHOOSE x \in 1..Len(m) :
                    /\ \A y \in 1..Len(m) : Len(m[x].word) <= Len(m[y].word)
                    /\ \A y \in 1..(x - 1) : Len(m[y].word) > Len(m[x].word)
         IN  <<m[a]>> \o SortedByLenAsc(DropAt(m, a))

\* sorted(mapping, key=len, reverse=True): the sort is stable, keys of one
\* length stay in insertion order.
RECURSIVE SortedByLenDesc(_)
SortedByLenDesc(m) ==
    IF m = <<>> THEN <<>>
    ELSE LET a == CHOOSE x \in 1..Len(m) :
                    /\ \A y \in 1..Len(m) : Len(m[x].word) >= Len(m[y].word)
                    /\ \A y \in 1..(x - 1) : Len(m[y].word) < Len(m[x].word)
         IN  <<m[a]>> \o SortedByLenDesc(DropAt(m, a))

\* The for loop of apply_pronunciations over the sorted keys.
RECURSIVE SubAll(_, _)
SubAll(text, ord) ==
    IF ord = <<>> THEN text
    ELSE SubAll(Sub(ord[1].word, ord[1].respelling, text), Tail(ord))

\* apply_pronunciations(text, mapping)
apply_pronunciations(text, mapping) ==
    IF mapping = <<>> THEN text
    ELSE SubAll(text, SortedByLenDesc(mapping))

\* Sentences as _split_sentences returns them: non-empty, one of a single
\* word, one of two words.
SentenceChoices == {<<"s", ".">>, <<"q", " ", "S", "!">>}

SentenceLists == UNION {[1..n -> SentenceChoices] : n \in 0..MaxGroupSent}

\* " ".join(parts)
RECURSIVE JoinSpace(_)
JoinSpace(parts) ==
    IF parts = <<>> THEN <<>>
    ELSE IF Len(parts) = 1 THEN parts[1]
    ELSE parts[1] \o <<" ">> \o JoinSpace(Tail(parts))

\* sentences[i:i + 3] with 0-based i: the slice stops at the end of the list.
Slice(sentences, i) ==
    SubSeq(sentences, i + 1,
           IF i + ChunkSize <= Len(sentences) THEN i + ChunkSize ELSE Len(sentences))

\* Variant: only full groups of three are formed.
SentenceGroupsFullOnly(sentences) ==
    [g \in 1..(Len(sentences) \div ChunkSize) |->
        JoinSpace(Slice(sentences, ChunkSize * (g - 1)))]

\* Lines 147-150: [" ".join(sentences[i:i + 3])
\*                 for i in range(0, len(sentences), 3)]
SentenceGroups(sentences) ==
    [g \in 1..NChunks(Len(sentences)) |->
        JoinSpace(Slice(sentences, ChunkSize * (g - 1)))]

\* Characters of an answer, and the answers of up to MaxAnswer characters.
AnswerChars == {"y", "Y", "r", "q", "Q", "n", " "}

RawAnswers == UNION {[1..n -> AnswerChars] : n \in 0..MaxAnswer}

TextInputs ==
    [kind : {"pron"}, text : Texts, mapping : Tables]
    \cup
    [kind : {"group"}, sentences : SentenceLists]
    \cup
    [kind : {"silent"}, tenths : 0..MaxSilentTenths, sample_rate : {SampleRate, 8000}]
    \cup
    [kind : {"answer"}, raw : RawAnswers]

TextInit ==
    /\ slides = <<>>
    /\ interactive = FALSE
    /\ hold_duration = 0
    /\ env_device = "cpu"
    /\ model = "unloaded"
    /\ device = "none"
    /\ on_gpu = FALSE
    /\ pc = "text"
    /\ k = 1
    /\ phase = "idle"
    /\ j = 1
    /\ chunks = <<>>
    /\ files = [p \in AllPaths |-> Absent]
    /\ audio_paths = <<>>
    /\ exc = "none"
    /\ failJ = 0
    /\ callDev = "none"
    /\ downgrades = 0
    /\ retries = <<>>
    /\ op = "init"
    /\ log = <<>>
    /\ played = NoPlay
    /\ last_play = NoHeard
    /\ pronunciations = "none"
    /\ rewrites = <<>>
    /\ flushes = 0
    /\ seg_in = NoSeg
    /\ seg_out = NoSeg
    /\ text_in \in TextInputs
    /\ text_out = NoSeg
    /\ NoMain("text")

\* One call of apply_pronunciations.
ApplyPronunciations ==
    /\ text_out = NoSeg
    /\ text_in.kind = "pron"
    /\ text_out' = [kind |-> "pron",
                    text |-> apply_pronunciations(text_in.text, text_in.mapping)]
    /\ UNCHANGED <<seg_in, seg_out, text_in>>
    /\ UNCHANGED ttsVars
    /\ UNCHANGED mainVars

\* The sentence grouping at the head of _generate_slide_audio.
GroupSentences ==
    /\ text_out = NoSeg
    /\ text_in.kind = "group"
    /\ text_out' = [kind |-> "group", groups |-> SentenceGroups(text_in.sentences)]
    /\ UNCHANGED <<seg_in, seg_out, text_in>>
    /\ UNCHANGED ttsVars
    /\ UNCHANGED mainVars

\* One call of generate_silent_wav.
WriteSilentWav ==
    /\ text_out = NoSeg
    /\ text_in.kind = "silent"
    /\ text_out' = [kind |-> "silent",
                    file |-> SilentWavFile(text_in.tenths, text_in.sample_rate)]
    /\ UNCHANGED <<seg_in, seg_out, text_in>>
    /\ UNCHANGED ttsVars
    /\ UNCHANGED mainVars

\* One answer at the review prompt.
ReadChoice ==
    /\ text_out = NoSeg
    /\ text_in.kind = "answer"
    /\ text_out' = [kind |-> "answer", branch |-> ReviewChoice(text_in.raw)]
    /\ UNCHANGED <<seg_in, seg_out, text_in>>
    /\ UNCHANGED ttsVars
    /\ UNCHANGED mainVars

TextNext ==
    \/ ReadChoice
    \/ ApplyPronunciations
    \/ GroupSentences
    \/ WriteSilentWav

TextSpec == TextInit /\ [][TextNext]_vars

\* ============================================== main() and assemble_video

\* Slide.video: None, or the path of a screencast.
VideoChoices == {"none", "clip"}

DeckNotes == {NoNotes, TextNotes(1)}

\* The parsed deck: slides numbered 1, 2, ... in document order.
Decks ==
    UNION { { [a \in 1..n |-> [index |-> a, notes |-> ns[a], video |-> vs[a]]]
              : ns \in [1..n -> DeckNotes], vs \in [1..n -> VideoChoices] }
            : n \in 1..MaxDeck }

\* An audio artifact an earlier run left in the temp directory: the earlier
\* run rendered ti images and wrote the audio of the first ta <= ti slides.
PreviousAudio ==
    [kind |-> "speech", samples |-> 0, wav |-> <<[chunk |-> 0, phase |-> "previous"]>>]

\* An item of --redo-slides: one that int() accepts, with its value, or one
\* that makes int() raise ValueError.
NumberItem(n) == [digits |-> TRUE, value |-> n]

WordItem == [digits |-> FALSE, value |-> 0]

\* The arguments of --redo-slides: slide numbers from 0 to one past the
\* longest deck, and a word; a list with the word or with 0 has at most
\* MaxRejectedList items.
SlideListArgs ==
    {list \in (SUBSET ({NumberItem(n) : n \in 0..(MaxDeck + 1)} \cup {WordItem})) \ {{}} :
        \/ \A t \in list : t.digits /\ t.value >= 1
        \/ Cardinality(list) <= MaxRejectedList}

\* Variant: the items are converted and none is compared with 1.
SlideListAnyNumber(list) == \A t \in list : t.digits

\* _parse_slide_list lines 60-68: int() of every item, and no number
\* below 1; otherwise sys.exit(1).
SlideListAccepted(list) ==
    /\ \A t \in list : t.digits
    /\ \A t \in list : ~(t.value < 1)

\* _parse_slide_list line 69: sorted(set(indices))
ParsedSlideList(list) == {t.value : t \in list}

\* temp_dir / "slides.NNN"
ImagePath(n) == <<"slides">> \o Fmt03d(n)

MainInit ==
    /\ mode \in {"full", "reassemble", "redo"}
    /\ deck \in Decks
    /\ IF \E a \in 1..Len(deck) : deck[a].video # "none"
       THEN videos_exist \in BOOLEAN
       ELSE videos_exist = TRUE
    /\ IF mode = "redo"
       THEN /\ slide_list \in SlideListArgs
            /\ redo_req = IF SlideListAccepted(slide_list)
                          THEN ParsedSlideList(slide_list) ELSE {}
       ELSE /\ slide_list = {}
            /\ redo_req = {}
    /\ IF mode = "full" THEN interactive \in BOOLEAN ELSE interactive = FALSE
    /\ IF mode = "full"
       THEN /\ keep_temp \in BOOLEAN
            /\ user_temp \in BOOLEAN
            /\ image_files = {}
            /\ files = [p \in AllPaths |-> Absent]
       ELSE /\ keep_temp = FALSE
            /\ user_temp = TRUE
            /\ \E ti \in 0..MaxDeck :
               \E ta \in 0..ti :
                 /\ image_files = 1..ti
                 /\ files = [p \in AllPaths |->
                               IF p \in {AudioPath(a) : a \in 1..ta}
                               THEN PreviousAudio ELSE Absent]
    /\ stage = "start"
    /\ pronunciations \in {"none", "malformed"}
    /\ rewrites = <<>>
    /\ flushes = 0
    /\ text_in = NoSeg
    /\ text_out = NoSeg
    /\ images = <<>>
    /\ audio_files = <<>>
    /\ video_paths = <<>>
    /\ segments = <<>>
    /\ seg_disk = {}
    /\ encodes = <<>>
    /\ concat_file = <<>>
    /\ output = "absent"
    /\ temp_removed = FALSE
    /\ slides = <<>>
    /\ hold_duration = MaxHoldMs
    /\ env_device = "cpu"
    /\ model = "unloaded"
    /\ device = "none"
    /\ on_gpu = FALSE
    /\ pc = "main"
    /\ k = 1
    /\ phase = "idle"
    /\ j = 1
    /\ chunks = <<>>
    /\ audio_paths = <<>>
    /\ exc = "none"
    /\ failJ = 0
    /\ callDev = "none"
    /\ downgrades = 0
    /\ retries = <<>>
    /\ op = "init"
    /\ log = <<>>
    /\ played = NoPlay
    /\ last_play = NoHeard
    /\ seg_in = NoSeg
    /\ seg_out = NoSeg

\* What every step of main() outside the audio stage leaves alone.
MainStep(o) ==
    /\ op' = o
    /\ exc' = "none" /\ failJ' = 0 /\ callDev' = "none"
    /\ played' = NoPlay /\ UNCHANGED last_play
    /\ flushes' = 0
    /\ UNCHANGED <<interactive, hold_duration, env_device, model, device, on_gpu,
                   k, phase, j, chunks, audio_paths, downgrades, pronunciations>>
    /\ UNCHANGED <<mode, deck, videos_exist, redo_req, slide_list, keep_temp, user_temp>>
    /\ UNCHANGED segVars

\* shutil.rmtree(temp_dir, ignore_errors=True)
RemoveTemp ==
    /\ files' = [p \in AllPaths |-> Absent]
    /\ image_files' = {}
    /\ seg_disk' = {}
    /\ concat_file' = <<>>
    /\ temp_removed' = TRUE

KeepTemp == UNCHANGED <<files, image_files, seg_disk, concat_file, temp_removed>>

\* Variant: the handler removes the temp directory before re-raising.
OnPipelineExceptionCleanup ==
    /\ stage' = "raised"
    /\ RemoveTemp

\* main() lines 369-372: except Exception: log, report that the temp files
\* are preserved, re-raise.
OnPipelineException ==
    /\ stage' = "raised"
    /\ KeepTemp

\* sys.exit(1) inside the try block: SystemExit is not an Exception, and
\* the else clause does not run.
ExitOne ==
    /\ stage' = "exit1"
    /\ KeepTemp

AudioOnDisk == {a \in 1..MaxIndex : files[AudioPath(a)].kind # "absent"}

\* _discover_temp_files: the three checks that end in sys.exit(1).
DiscoverOk ==
    /\ image_files # {}
    /\ AudioOnDisk # {}
    /\ Cardinality(image_files) = Cardinality(AudioOnDisk)

\* sorted(glob("slides.[0-9][0-9][0-9]")): with three digits the order of
\* the names is the order of the numbers.
DiscoveredImages ==
    LET idx == SortedSeq(image_files)
    IN  [a \in 1..Len(idx) |-> ImagePath(idx[a])]

\* Variant: the audio files are listed last to first.
DiscoveredAudioDescending ==
    LET idx == SortedSeq(AudioOnDisk)
    IN  [a \in 1..Len(idx) |-> AudioPath(idx[Len(idx) + 1 - a])]

\* sorted(glob("audio_[0-9][0-9][0-9].wav"))
DiscoveredAudio ==
    LET idx == SortedSeq(AudioOnDisk)
    IN  [a \in 1..Len(idx) |-> AudioPath(idx[a])]

\* _resolve_videos_and_fps: exits when a referenced screencast is missing.
ResolveOk(sl) == \A a \in 1..Len(sl) : sl[a].video # "none" => videos_exist

VideoPaths(sl) == [a \in 1..Len(sl) |-> sl[a].video]

\* redo_slides = [s for s in slides if s.index in slide_indices]
RedoSlides == SelectSeq(deck, LAMBDA s : s.index \in redo_req)

\* The call of generate_audio_for_slides(sl, ...).
CallGenerateAudio(sl) ==
    /\ slides' = sl
    /\ pc' = "start"
    /\ retries' = [a \in 1..Len(sl) |-> 0]
    /\ rewrites' = [a \in 1..Len(sl) |-> 0]
    /\ log' = [a \in 1..Len(sl) |-> NoLog]
    /\ stage' = "audio"

\* main() lines 173-204, before the try block: the pronunciation table is
\* loaded (load_pronunciations raises on a file that is not a JSON object),
\* the temp directory is set up.
Preflight ==
    /\ stage = "start"
    /\ IF pronunciations = "malformed"
       THEN /\ MainStep("bad_table")
            /\ stage' = "raised"
       ELSE /\ MainStep("preflight")
            /\ stage' = "setup"
    /\ KeepTemp
    /\ UNCHANGED <<slides, pc, retries, rewrites, log, images, audio_files,
                   video_paths, segments, encodes, output>>

\* Reassemble mode up to the call of assemble_video (lines 208-218).
ReassembleSetup ==
    /\ stage = "setup"
    /\ mode = "reassemble"
    /\ IF DiscoverOk /\ ResolveOk(deck)
       THEN /\ MainStep("setup")
            /\ images' = DiscoveredImages
            /\ audio_files' = DiscoveredAudio
            /\ video_paths' = VideoPaths(deck)
            /\ stage' = "assemble"
            /\ KeepTemp
       ELSE /\ MainStep(IF DiscoverOk THEN "bad_video" ELSE "rejected")
            /\ ExitOne
            /\ UNCHANGED <<images, audio_files, video_paths>>
    /\ UNCHANGED <<slides, pc, retries, rewrites, log, segments, encodes, output>>

\* Redo-slides mode up to the call of generate_audio_for_slides
\* (lines 236-262): the list is parsed, the deck is parsed, the numbers are
\* compared with the deck, the temp directory is searched.
RedoSetup ==
    /\ stage = "setup"
    /\ mode = "redo"
    /\ IF /\ SlideListAccepted(slide_list)
          /\ \A idx \in redo_req : idx <= Len(deck)
          /\ DiscoverOk
       THEN /\ MainStep("setup")
            /\ images' = DiscoveredImages
            /\ audio_files' = DiscoveredAudio
            /\ CallGenerateAudio(RedoSlides)
            /\ KeepTemp
       ELSE /\ MainStep("rejected")
            /\ ExitOne
            /\ UNCHANGED <<images, audio_files, slides, pc, retries, rewrites, log>>
    /\ UNCHANGED <<video_paths, segments, encodes, output>>

\* Redo-slides mode after the audio stage (lines 279-281): the audio files
\* are discovered again, the screencasts resolved.
RedoAfterAudio ==
    /\ stage = "audio"
    /\ pc = "returned"
    /\ mode = "redo"
    /\ IF DiscoverOk /\ ResolveOk(deck)
       THEN /\ MainStep("collected")
            /\ audio_files' = DiscoveredAudio
            /\ video_paths' = VideoPaths(deck)
            /\ stage' = "assemble"
            /\ KeepTemp
       ELSE /\ MainStep(IF DiscoverOk THEN "bad_video" ELSE "rejected")
            /\ ExitOne
            /\ UNCHANGED <<audio_files, video_paths>>
    /\ UNCHANGED <<slides, pc, retries, rewrites, log, images, segments, encodes, output>>

\* Full pipeline up to the call of generate_audio_for_slides (lines
\* 298-321): parse, resolve the screencasts, render; the renderer raises,
\* or produces some number of images and exits unless it is the number of
\* slides.
FullSetup ==
    /\ stage = "setup"
    /\ mode = "full"
    /\ \/ /\ ~ResolveOk(deck)
          /\ MainStep("bad_video")
          /\ ExitOne
          /\ UNCHANGED <<images, video_paths, slides, pc, retries, rewrites, log>>
       \/ /\ ResolveOk(deck)
          /\ MainStep("render_failed")
          /\ OnPipelineException
          /\ UNCHANGED <<images, video_paths, slides, pc, retries, rewrites, log>>
       \/ /\ ResolveOk(deck)
          /\ \E m \in 0..MaxDeck :
               /\ image_files' = 1..m
               /\ UNCHANGED <<files, seg_disk, concat_file, temp_removed>>
               /\ IF m = Len(deck)
                  THEN /\ MainStep("setup")
                       /\ images' = [a \in 1..m |-> ImagePath(a)]
                       /\ video_paths' = VideoPaths(deck)
                       /\ CallGenerateAudio(deck)
                  ELSE /\ MainStep("bad_count")
                       /\ stage' = "exit1"
                       /\ UNCHANGED <<images, video_paths, slides, pc, retries, rewrites, log>>
    /\ UNCHANGED <<audio_files, segments, encodes, output>>

\* Full pipeline after the audio stage (lines 324-337): the returned list
\* is the audio list of the assembly.
FullAfterAudio ==
    /\ stage = "audio"
    /\ pc = "returned"
    /\ mode = "full"
    /\ MainStep("collected")
    /\ audio_files' = audio_paths
    /\ stage' = "assemble"
    /\ KeepTemp
    /\ UNCHANGED <<slides, pc, retries, rewrites, log, images, video_paths, segments,
                   encodes, output>>

Min(a, b) == IF a <= b THEN a ELSE b

\* zip(images, audio_files, videos) stops at the shortest list.
ZipLen == Min(Len(images), Min(Len(audio_files), Len(video_paths)))

\* enumerate(..., start=1): the number of the next segment.
NextSeg == Len(encodes) + 1

\* Variant: a failed encode is skipped and the loop goes on.
OnEncodeFailureContinue ==
    /\ UNCHANGED <<segments, stage>>
    /\ KeepTemp

\* assembler.py lines 59-61 and 117-119: RuntimeError, which nothing in
\* assemble_video catches.
OnEncodeFailure ==
    /\ UNCHANGED segments
    /\ OnPipelineException

\* assemble_video lines 138-145: one turn of the loop, which encodes
\* segment i from the i-th image, audio file and screencast.
EncodeSegment ==
    /\ stage = "assemble"
    /\ NextSeg <= ZipLen
    /\ encodes' = Append(encodes,
                         [index |-> NextSeg,
                          image |-> images[NextSeg],
                          audio |-> audio_files[NextSeg],
                          video |-> video_paths[NextSeg],
                          kind |-> IF video_paths[NextSeg] # "none"
                                   THEN "video" ELSE "still"])
    /\ \E ok \in BOOLEAN :
         IF ok
         THEN /\ MainStep("encode")
              /\ segments' = Append(segments, SegmentPath(NextSeg))
              /\ seg_disk' = seg_disk \cup {SegmentPath(NextSeg)}
              /\ UNCHANGED <<stage, files, image_files, concat_file, temp_removed>>
         ELSE /\ MainStep("encode_failed")
              /\ OnEncodeFailure
    /\ UNCHANGED <<slides, pc, retries, rewrites, log, images, audio_files, video_paths,
                   output>>

\* Variant: the manifest lists the segments last to first.
ManifestReversed(segs) ==
    [a \in 1..Len(segs) |-> <<"file">> \o segs[Len(segs) + 1 - a]]

\* assemble_video lines 150-151: one line f"file '{seg}'" per segment.
Manifest(segs) == [a \in 1..Len(segs) |-> <<"file">> \o segs[a]]

\* assemble_video lines 147-151: the loop is over, concat.txt is written.
WriteConcat ==
    /\ stage = "assemble"
    /\ NextSeg > ZipLen
    /\ MainStep("manifest")
    /\ concat_file' = Manifest(segments)
    /\ stage' = "concat"
    /\ UNCHANGED <<files, image_files, seg_disk, temp_removed>>
    /\ UNCHANGED <<slides, pc, retries, rewrites, log, images, audio_files, video_paths,
                   segments, encodes, output>>

\* assemble_video lines 153-167: the ffmpeg concat run; a non-zero return
\* code raises RuntimeError.
RunConcat ==
    /\ stage = "concat"
    /\ \E ok \in BOOLEAN :
         IF ok
         THEN /\ MainStep("concat")
              /\ output' = "written"
              /\ stage' = "assembled"
              /\ KeepTemp
         ELSE /\ MainStep("concat_failed")
              /\ OnPipelineException
              /\ UNCHANGED output
    /\ UNCHANGED <<slides, pc, retries, rewrites, log, images, audio_files, video_paths,
                   segments, encodes>>

\* main() lines 374-381: the else clause of the try block.
Finish ==
    /\ stage = "assembled"
    /\ MainStep("cleanup")
    /\ stage' = "done"
    /\ IF ~keep_temp /\ ~user_temp THEN RemoveTemp ELSE KeepTemp
    /\ UNCHANGED <<slides, pc, retries, rewrites, log, images, audio_files, video_paths,
                   segments, encodes, output>>

MainNext ==
    \/ Preflight
    \/ ReassembleSetup
    \/ RedoSetup
    \/ RedoAfterAudio
    \/ FullSetup
    \/ FullAfterAudio
    \/ Begin
    \/ Return
    \/ SilentSlide
    \/ BeginSlide
    \/ GenChunk
    \/ Combine
    \/ Prompt
    \/ EncodeSegment
    \/ WriteConcat
    \/ RunConcat
    \/ Finish

MainSpec == MainInit /\ [][MainNext]_vars

\* =================================================================== claims

PathOf(a) == AudioPath(slides[a].index)

PcValues == {"start", "loop", "gen", "prompt", "returned", "exited"}

\* C1: whenever generate_audio_for_slides returns, the result holds exactly
\* one path per input slide, in input order, the a-th path is
\* audio_<index of the a-th slide, three digits>.wav, and that file has
\* been written.
C1_OnePathPerSlide ==
    pc = "returned" =>
        /\ Len(audio_paths) = Len(slides)
        /\ \A a \in 1..Len(slides) :
             /\ audio_paths[a] = <<"audio", 0, 0, slides[a].index>>
             /\ files[audio_paths[a]].kind # "absent"

\* A returned interactive run over at least three slides: one without
\* notes, one whose synthesis was abandoned, one narrated.
C1_Witness ==
    /\ pc = "returned"
    /\ interactive
    /\ \E a, b, c \in 1..Len(slides) :
         /\ ~slides[a].notes.present
         /\ slides[b].notes.nsent > 0 /\ files[PathOf(b)].kind = "silent"
         /\ files[PathOf(c)].kind = "speech"

\* C2: a model failure never ends the run: the step in which a chunk loop
\* raises either starts the post-downgrade retry of the same slide or moves
\* on to the next slide; the run ends only by returning after the last
\* slide or by the operator's quit.
C2_FailureNeverAborts ==
    /\ [](/\ pc \in PcValues
          /\ (pc = "returned" => k = Len(slides) + 1)
          /\ (pc = "exited" => op = "quit"))
    /\ [][exc' # "none" =>
            \/ (pc' = "gen" /\ phase' = "retry" /\ k' = k)
            \/ (pc' = "loop" /\ k' = k + 1)]_vars

\* A returned run in which an earlier slide's synthesis failed (on the
\* first attempt and on the retry) and a later slide was narrated.
C2_Witness ==
    /\ pc = "returned"
    /\ \E a, b \in 1..Len(slides) :
         /\ a < b
         /\ log[a].first = "oom" /\ log[a].retry = "err"
         /\ log[b].first = "ok"

\* C3: for every slide already processed, the artifact is silence of
\* exactly the hold duration if the slide has no notes or its synthesis was
\* abandoned (first failure not out-of-memory on the accelerator, or the
\* retry failed), and it is synthesized narration if the slide has notes
\* and its first attempt or its retry succeeded.
Abandoned(a) ==
    \/ (log[a].first \in {"oom", "err"}
        /\ ~(log[a].first = "oom" /\ log[a].firstDev = "gpu"))
    \/ log[a].retry \in {"oom", "err"}

Synthesized(a) ==
    /\ slides[a].notes.present
    /\ (log[a].first = "ok" \/ log[a].retry = "ok")

IsHoldSilence(f) ==
    /\ f.kind = "silent"
    /\ f.samples * 1000 = SampleRate * hold_duration

C3_SilenceOrNarration ==
    \A a \in 1..Len(slides) :
        a < k =>
            /\ (~slides[a].notes.present \/ Abandoned(a)) => IsHoldSilence(files[PathOf(a)])
            /\ Synthesized(a) => files[PathOf(a)].kind = "speech"

\* After the audio stage: a slide without notes, a slide abandoned after
\* the retry failed, a slide abandoned at once, and a narrated slide whose
\* later regeneration failed, with a non-zero hold duration.
C3_Witness ==
    /\ pc = "returned"
    /\ hold_duration > 0
    /\ \E a, b, c \in 1..Len(slides) :
         /\ ~slides[a].notes.present
         /\ log[b].first = "oom" /\ log[b].firstDev = "gpu" /\ log[b].retry = "oom"
         /\ log[c].first = "ok" /\ files[PathOf(c)].kind = "speech"

C5_AtMostOneDowngrade == downgrades <= 1

\* Out-of-memory has just been raised on a slide after the slide that
\* caused the downgrade.
C5_Witness ==
    /\ downgrades = 1
    /\ exc = "oom"
    /\ \E a \in 1..Len(slides) : a + 1 < k /\ retries[a] = 1

\* C6: once the model has been downgraded it stays on CPU, and every later
\* model call (retry chunks, later slides, regenerations) runs on CPU.
C6_DeviceMonotonic ==
    /\ [][downgrades > 0 => (device' = "cpu" /\ callDev' \in {"none", "cpu"})]_vars
    /\ [][device = "cpu" => device' = "cpu"]_vars

\* A regeneration chunk has just run on CPU, on a slide after the one that
\* caused the downgrade.
C6_Witness ==
    /\ downgrades = 1
    /\ op = "chunk" /\ phase = "regen" /\ callDev = "cpu"
    /\ \E a \in 1..Len(slides) : a < k /\ retries[a] = 1

\* ------------------------------------------------------- segment durations

PaddedAudio == seg_in.audio_dur + 2 * (seg_in.audio_padding_ms * 50)

\* The rendered argument is the value to the nearest 0.1 ms.
Rendered(arg, value) == 5 * arg - 2 <= value /\ value <= 5 * arg + 2

\* C7: for a slide without screencast the target duration is the audio
\* duration plus twice the padding, exactly; the -t argument renders that
\* value with four decimals.
C7_StillSegmentLaw ==
    seg_out.kind = "still" =>
        /\ seg_out.duration = PaddedAudio
        /\ Rendered(seg_out.t_arg, PaddedAudio)

\* A still segment with padding and an audio duration off the 0.1 ms grid.
C7_Witness ==
    /\ seg_out.kind = "still"
    /\ seg_in.audio_padding_ms > 0
    /\ seg_in.audio_dur % 5 = 3

C9_FreezeLaw ==
    seg_out.kind = "video" =>
        /\ seg_out.tpad <=> (PaddedAudio > seg_in.video_dur)
        /\ seg_out.tpad =>
             /\ seg_out.freeze = PaddedAudio - seg_in.video_dur
             /\ Rendered(seg_out.stop_arg, PaddedAudio - seg_in.video_dur)
        /\ ~seg_out.tpad => seg_out.freeze = 0

\* The freeze is caused by the padding alone: the clip is longer than the
\* raw audio and shorter than the padded audio.
C9_Witness ==
    /\ seg_out.kind = "video"
    /\ seg_in.audio_dur < seg_in.video_dur
    /\ seg_in.video_dur < PaddedAudio
    /\ seg_out.tpad
    /\ seg_out.freeze > 0

C11_NeverTruncatesNarration ==
    seg_out.kind \in {"still", "video"} =>
        /\ seg_out.duration >= seg_in.audio_dur + seg_in.audio_padding_ms * 100
        /\ 5 * seg_out.t_arg + 2 >= seg_in.audio_dur + seg_in.audio_padding_ms * 100

\* A screencast segment whose narration outlasts the clip, with padding:
\* the audio alone decides the target.
C11_Witness ==
    /\ seg_out.kind = "video"
    /\ seg_in.audio_dur > seg_in.video_dur
    /\ seg_in.video_dur > 0
    /\ seg_in.audio_padding_ms > 0
    /\ seg_out.duration = PaddedAudio

\* ------------------------------------------------------------ assembly

\* The manifest has been written and the concatenation is about to be
\* requested, or has just been requested.
ConcatReached == stage = "concat" \/ op \in {"concat", "concat_failed"}

\* C12: when the concatenation is requested, every turn of the encoding
\* loop has been taken and has succeeded, and the manifest lists exactly the
\* encoded segments, one entry each, entry number a naming segment_00a,
\* which is on disk.
C12_ManifestInIndexOrder ==
    ConcatReached =>
        /\ Len(encodes) = ZipLen
        /\ Len(segments) = Len(encodes)
        /\ Len(concat_file) = Len(segments)
        /\ \A a \in 1..Len(concat_file) :
             /\ concat_file[a] = <<"file", "segment", 0, 0, a>>
             /\ encodes[a].index = a
             /\ <<"segment", 0, 0, a>> \in seg_disk

\* The concatenation of three segments has just succeeded, stills and a
\* screencast among them.
C12_Witness ==
    /\ op = "concat"
    /\ Len(concat_file) = 3
    /\ encodes[1].kind = "still"
    /\ encodes[2].kind = "video"

\* C13 (as stated): whenever assembly reaches concatenation, in every mode,
\* the number of segments encoded and listed in the manifest equals the
\* number of slides of the parsed deck.
C13_SegmentCountIsSlideCount ==
    ConcatReached =>
        /\ Len(segments) = Len(deck)
        /\ Len(concat_file) = Len(deck)

\* C14: when the encode of a segment fails, the run ends there with the
\* error: the failed encode was requested once, every earlier segment is
\* still on disk, no later segment is requested, no manifest is written, no
\* output is produced, the temp directory is kept, and no further step is
\* taken.
C14_EncodeFailFast ==
    /\ [](op = "encode_failed" =>
            /\ stage = "raised"
            /\ Len(encodes) = Len(segments) + 1
            /\ \A a \in 1..Len(encodes) : encodes[a].index = a
            /\ \A a \in 1..Len(segments) : segments[a] \in seg_disk
            /\ concat_file = <<>>
            /\ output = "absent"
            /\ ~temp_removed)
    /\ [][op # "encode_failed"]_vars

\* The encode of the second of three segments has just failed; the first
\* segment is on disk.
C14_Witness ==
    /\ op = "encode_failed"
    /\ ZipLen = 3
    /\ Len(encodes) = 2
    /\ seg_disk = {<<"segment", 0, 0, 1>>}

Aborted == stage \in {"exit0", "exit1", "raised"}

\* C15: no step other than the cleanup after a successful assembly deletes
\* an audio, image or segment artifact or removes the temp directory; a
\* run that ended by an error, a rejected input or the operator's quit has
\* not removed the temp directory and takes no further step.
C15_AbortPreservesArtifacts ==
    /\ [][~(stage = "assembled" /\ output = "written" /\ stage' = "done") =>
            /\ image_files \subseteq image_files'
            /\ seg_disk \subseteq seg_disk'
            /\ \A p \in DOMAIN files :
                 files[p].kind # "absent" => files'[p].kind # "absent"
            /\ temp_removed' = temp_removed]_vars
    /\ [](Aborted => ~temp_removed)
    /\ [][~Aborted]_vars

\* The concatenation has just failed in a run that would have removed its
\* temp directory on success; images, audio and segments are on disk.
C15_Witness ==
    /\ stage = "raised"
    /\ op = "concat_failed"
    /\ ~keep_temp /\ ~user_temp
    /\ image_files # {}
    /\ seg_disk # {}
    /\ \E p \in DOMAIN files : files[p].kind = "speech"

\* ---------------------------------------------------- interactive review

\* C16: the operator's quit ends the whole run at once as exit status 0:
\* no step of any kind (model call, playback, prompt, slide, encode,
\* concatenation, cleanup) follows it, and nothing has been encoded.
C16_QuitEndsRun ==
    /\ [](op = "quit" =>
            /\ pc = "exited"
            /\ stage = "exit0"
            /\ encodes = <<>>
            /\ concat_file = <<>>
            /\ output = "absent")
    /\ [](stage = "exit0" => op = "quit")
    /\ [][op # "quit"]_vars

\* Quit at the second slide of a three-slide deck in the full pipeline.
C16_Witness ==
    /\ op = "quit"
    /\ mode = "full"
    /\ k = 2
    /\ Len(slides) = 3

\* C17: keep ends the review of the slide: the step makes no model call
\* and no playback, leaves every artifact as it is, appends the slide's
\* path and moves to the next slide; the loop never goes back to a slide.
C17_KeepEndsReview ==
    /\ [][op' = "keep" =>
            /\ pc = "prompt"
            /\ callDev' = "none"
            /\ played' = [path |-> <<>>, art |-> Absent]
            /\ files' = files
            /\ audio_paths' = Append(audio_paths, <<"audio", 0, 0, slides[k].index>>)
            /\ k' = k + 1
            /\ pc' = "loop"]_vars
    /\ [][k' >= k]_vars

\* A narrated slide has just been kept and another slide follows.
C17_Witness ==
    /\ op = "keep"
    /\ pc = "loop"
    /\ k <= Len(slides)
    /\ files[PathOf(k - 1)].kind = "speech"

\* C18: replay plays the slide's current artifact and prompts again for
\* the same slide; it makes no model call and changes neither an artifact
\* nor the device state nor the result list.
C18_ReplayOnlyPlays ==
    [][op' = "replay" =>
         /\ pc = "prompt" /\ pc' = "prompt"
         /\ k' = k
         /\ played' = [path |-> <<"audio", 0, 0, slides[k].index>>,
                       art |-> files[<<"audio", 0, 0, slides[k].index>>]]
         /\ callDev' = "none"
         /\ files' = files
         /\ device' = device /\ on_gpu' = on_gpu /\ downgrades' = downgrades
         /\ audio_paths' = audio_paths]_vars

\* A regenerated artifact has just been replayed with the model on the
\* accelerator.
C18_Witness ==
    /\ op = "replay"
    /\ pc = "prompt"
    /\ device = "gpu"
    /\ played.art.kind = "speech"
    /\ played.art.wav[1].phase = "regen"

\* C19 (as stated): whenever the chunk loop of a regeneration ends, the
\* operator is prompted again for the same slide.
C19_RegenerateAlwaysPromptsAgain ==
    [][(pc = "gen" /\ phase = "regen" /\ pc' # "gen") =>
          (pc' = "prompt" /\ k' = k)]_vars

\* C19 (amended): regenerate starts the slide's chunk loop at the first
\* chunk with an empty buffer; when that loop succeeds the new waveform is
\* saved and played and the operator is prompted again for the same slide;
\* when it fails the review of the slide ends and the run moves to the next
\* slide.
C19_RegenerateThenPromptUnlessFailed ==
    /\ [][op' = "regenerate" =>
            /\ pc = "prompt"
            /\ pc' = "gen" /\ phase' = "regen"
            /\ j' = 1 /\ chunks' = <<>>
            /\ k' = k
            /\ files' = files]_vars
    /\ [][(pc = "gen" /\ phase = "regen" /\ pc' # "gen") =>
            IF exc' = "none"
            THEN /\ pc' = "prompt" /\ k' = k
                 /\ files'[PathOf(k)].kind = "speech"
                 /\ files'[PathOf(k)].wav # <<>>
                 /\ \A c \in 1..Len(files'[PathOf(k)].wav) :
                      files'[PathOf(k)].wav[c].phase = "regen"
                 /\ played' = [path |-> PathOf(k), art |-> files'[PathOf(k)]]
            ELSE /\ pc' = "loop" /\ k' = k + 1]_vars

\* A regeneration of two chunks has just succeeded and the operator is
\* prompted again.
C19_Witness ==
    /\ pc = "prompt"
    /\ op = "combine"
    /\ Len(files[PathOf(k)].wav) = 2
    /\ files[PathOf(k)].wav[2].phase = "regen"

\* C20: when a regeneration fails, no artifact changes (the slide keeps its
\* previous narration), the slide's path is appended once and the run moves
\* to the next slide; at every moment the result holds exactly one path per
\* slide already left behind.
C20_FailedRegenKeepsPrevious ==
    /\ [][(pc = "gen" /\ phase = "regen" /\ exc' # "none") =>
            /\ files' = files
            /\ files[PathOf(k)].kind = "speech"
            /\ audio_paths' = Append(audio_paths, <<"audio", 0, 0, slides[k].index>>)
            /\ k' = k + 1
            /\ pc' = "loop"]_vars
    /\ [](Len(audio_paths) = k - 1)

\* The second chunk of a regeneration has just raised; the slide keeps its
\* first narration and another slide follows.
C20_Witness ==
    /\ pc = "loop"
    /\ exc = "oom" /\ failJ = 2
    /\ log[k - 1].first = "ok"
    /\ files[PathOf(k - 1)].kind = "speech"
    /\ k <= Len(slides)

\* C21: silent slides skip the review loop: the operator is prompted only
\* while the current slide's artifact is synthesized speech, only speech is
\* ever played, and the step that writes a silent artifact (for a slide
\* without notes or for an abandoned synthesis) plays nothing and moves
\* straight on to the next slide, which the loop never leaves backwards.
C21_SilentSkipsReview ==
    /\ [](pc = "prompt" => interactive /\ files[CurPath].kind = "speech")
    /\ [](played # NoPlay => interactive /\ played.art.kind = "speech")
    /\ [][(/\ pc \in {"loop", "gen"}
           /\ k <= Len(slides)
           /\ files'[CurPath] # files[CurPath]
           /\ files'[CurPath].kind = "silent")
          => (pc' = "loop" /\ k' = k + 1 /\ played' = NoPlay)]_vars
    /\ [][k' >= k]_vars

\* An interactive run has returned after a slide without notes, a slide
\* whose synthesis was abandoned and a slide the operator reviewed.
C21_Witness ==
    /\ pc = "returned"
    /\ interactive
    /\ \E a, b, c \in 1..Len(slides) :
         /\ ~slides[a].notes.present
         /\ files[PathOf(a)].kind = "silent"
         /\ slides[b].notes.present
         /\ log[b].first = "err"
         /\ files[PathOf(b)].kind = "silent"
         /\ log[c].first = "ok"
         /\ files[PathOf(c)].kind = "speech"

\* C22: the model is loaded only if some slide has (non-empty) notes, the
\* load happens only in the opening step of the run, starting from the
\* unloaded state, and every model call is made on a loaded model; in a
\* run where no slide has notes the model is never loaded and never called.
C22_LazyLoadAtMostOnce ==
    /\ [](model = "loaded" => \E a \in 1..Len(slides) : slides[a].notes.truthy)
    /\ [](callDev # "none" => model = "loaded")
    /\ []((\A a \in 1..Len(slides) : ~slides[a].notes.truthy)
            => model # "loaded" /\ callDev = "none")
    /\ [][model' # model => pc = "start" /\ model = "unloaded"]_vars
    /\ [][pc' = "start" => pc = "start"]_vars

\* A run over two or more slides, none with notes to speak (one of them
\* with empty notes), has returned without a model.
C22_Witness ==
    /\ pc = "returned"
    /\ Len(slides) >= 2
    /\ model = "none"
    /\ \E a \in 1..Len(slides) : slides[a].notes = EmptyNotes
    /\ \A a \in 1..Len(slides) : files[PathOf(a)].kind = "silent"

\* The number of rewriter passes the text of every model call of a run has
\* been through.
OnceRewritten == IF pronunciations = "table" THEN 1 ELSE 0

\* C23: with a pronunciation table the rewriter is applied to a slide's
\* notes once, when the slide is taken up and before its first chunk loop,
\* and never again: every model call of the slide (first attempt, retry
\* after the downgrade, regeneration), whether it returns or raises, and
\* every chunk of every buffered or saved waveform, is made on the
\* once-rewritten notes.
C23_RewrittenOnceBeforeChunking ==
    /\ [](\A a \in 1..Len(slides) :
            /\ rewrites[a] <= OnceRewritten
            /\ (slides[a].notes.present /\ (a < k \/ (a = k /\ pc \in {"gen", "prompt"})))
                 => rewrites[a] = OnceRewritten)
    /\ [](\A i \in 1..Len(chunks) : chunks[i].text = OnceRewritten)
    /\ [](\A a \in 1..Len(slides) :
            \A i \in 1..Len(files[PathOf(a)].wav) :
              files[PathOf(a)].wav[i].text = OnceRewritten)
    /\ [][callDev' # "none" => rewrites[k] = OnceRewritten /\ rewrites' = rewrites]_vars
    /\ [][rewrites' # rewrites => op' = "slide" /\ pc = "loop"]_vars

\* With a table, a run has returned in which one slide went through a
\* first attempt, a retry after the downgrade and a regeneration.
C23_Witness ==
    /\ pc = "returned"
    /\ pronunciations = "table"
    /\ \E a \in 1..Len(slides) :
         /\ retries[a] = 1
         /\ log[a].retry = "ok"
         /\ files[PathOf(a)].kind = "speech"
         /\ files[PathOf(a)].wav[1].phase = "regen"
         /\ rewrites[a] = 1

\* C27: the release step runs in every step that makes a model call, after
\* the call and so before the next one, whether the call returned a chunk
\* or raised; a slide with notes is left either by a step that ran the
\* release step (after the save, or in the handler of a raised chunk loop)
\* or by the operator's keep, and the prompt is only entered by the save
\* step, which ran it after torch.cat and after the save, and makes no
\* model call itself.
C27_ReleaseAtChunkAndSlideBoundaries ==
    /\ [][callDev' # "none" => flushes' >= 1]_vars
    /\ [][op' = "combine" => flushes' >= 1]_vars
    /\ [][(k <= Len(slides) /\ k' = k + 1 /\ slides[k].notes.present)
          => (flushes' >= 1 \/ op' = "keep")]_vars
    /\ [][(pc' = "prompt" /\ pc # "prompt") => flushes' = 2]_vars
    /\ [](pc = "prompt" => callDev = "none")

\* The second chunk of a slide raised after the first was generated, and
\* the slide was abandoned: the failure path ran the release step.
C27_Witness ==
    /\ op = "chunk"
    /\ exc = "err"
    /\ failJ = 2
    /\ pc = "loop"
    /\ k >= 2
    /\ files[PathOf(k - 1)].kind = "silent"
    /\ flushes = 1

\* The case-folded form of a text.
Fold(t) == [i \in 1..Len(t) |-> Lower(t[i])]

\* The positions at which w occurs in t, whatever the case.
Occ(t, w) ==
    {i \in 1..(Len(t) - Len(w) + 1) : Fold(SubSeq(t, i, i + Len(w) - 1)) = Fold(w)}

\* t with every occurrence of w, first to last, replaced by r: t is cut at
\* its first occurrence and the remainder treated alike.
RECURSIVE ReplaceEvery(_, _, _)
ReplaceEvery(t, w, r) ==
    IF Occ(t, w) = {} THEN t
    ELSE LET i == CHOOSE x \in Occ(t, w) : \A y \in Occ(t, w) : x <= y
         IN  SubSeq(t, 1, i - 1) \o r
               \o ReplaceEvery(SubSeq(t, i + Len(w), Len(t)), w, r)

\* One pass per key, in the order p of the table's entries.
RECURSIVE Passes(_, _, _)
Passes(t, m, p) ==
    IF p = <<>> THEN t
    ELSE Passes(ReplaceEvery(t, m[p[1]].word, m[p[1]].respelling), m, Tail(p))

\* The orders of the table's entries in which no key is longer than the
\* one before it.
DescendingOrders(m) ==
    {p \in [1..Len(m) -> 1..Len(m)] :
       /\ \A a, b \in 1..Len(m) : a # b => p[a] # p[b]
       /\ \A a \in 1..(Len(m) - 1) : Len(m[p[a]].word) >= Len(m[p[a + 1]].word)}

WholeWordAt(t, i, w) ==
    /\ i = 1 \/ t[i - 1] = " "
    /\ i + Len(w) > Len(t) \/ t[i + Len(w)] = " "

\* C25: when no key of the table occurs in the text as a whole word (every
\* occurrence is part of a longer word), the text comes back unchanged.
C25_WholeWordsOnly ==
    text_out.kind = "pron" =>
        LET t == text_in.text
            m == text_in.mapping
        IN  (\A a \in 1..Len(m) : \A i \in Occ(t, m[a].word) :
               ~WholeWordAt(t, i, m[a].word))
            => text_out.text = t

\* C26: the groups are consecutive runs of the sentences in their order:
\* there are ceil(n / 3) of them (the least c with 3c >= n, the number of
\* model calls the orchestrator makes), none is empty, each but the last
\* is three sentences joined by a space, the last the one to three that
\* remain, and the groups joined by a space are the sentences joined by a
\* space.
C26_GroupsOfThreeInOrder ==
    text_out.kind = "group" =>
        LET sentences == text_in.sentences
            n == Len(sentences)
            g == text_out.groups
            c == Len(g)
        IN  /\ 3 * c >= n
            /\ 3 * (c - 1) < n \/ c = 0
            /\ c = NChunks(n)
            /\ \A i \in 1..c : g[i] # <<>>
            /\ \A i \in 1..(c - 1) :
                 g[i] = sentences[3 * i - 2] \o <<" ">> \o sentences[3 * i - 1]
                          \o <<" ">> \o sentences[3 * i]
            /\ c > 0 =>
                 /\ n - 3 * (c - 1) \in 1..3
                 /\ g[c] = JoinSpace(SubSeq(sentences, 3 * c - 2, n))
            /\ JoinSpace(g) = JoinSpace(sentences)

\* Seven sentences, of one and of two words, were grouped into three
\* chunks, the last of a single sentence.
C26_Witness ==
    /\ text_out.kind = "group"
    /\ Len(text_in.sentences) = 7
    /\ \E a, b \in 1..7 : text_in.sentences[a] # text_in.sentences[b]
    /\ Len(text_out.groups) = 3
    /\ text_out.groups[3] = text_in.sentences[7]

\* C28: in the full pipeline and in redo-slides mode, when the run ends on
\* a malformed pronunciation table, a missing screencast or a slide/image
\* count mismatch, generate_audio_for_slides has not been entered: no
\* model was loaded, none called, no audio path produced.
C28_ValidationBeforeSynthesis ==
    (mode \in {"full", "redo"} /\ op \in {"bad_table", "bad_video", "bad_count"})
    => /\ stage \in {"raised", "exit1"}
       /\ pc = "main"
       /\ model = "unloaded"
       /\ audio_paths = <<>>

\* C29: in redo-slides mode no step changes the audio artifact of a slide
\* that is not in the list, and when the concatenation is requested a
\* segment has been encoded and listed in the manifest for every slide of
\* the deck, listed or not.
C29_RedoRewritesListedAssemblesAll ==
    /\ [][mode = "redo" =>
            \A i \in 1..MaxIndex :
              i \notin redo_req => files'[AudioPath(i)] = files[AudioPath(i)]]_vars
    /\ []((mode = "redo" /\ ConcatReached) =>
            \A a \in 1..Len(deck) :
              /\ \E e \in 1..Len(encodes) :
                   encodes[e].index = a /\ encodes[e].audio = AudioPath(a)
              /\ \E l \in 1..Len(concat_file) :
                   concat_file[l] = <<"file">> \o SegmentPath(a))

\* The file generate_silent_wav leaves for a duration of ms milliseconds:
\* the whole number of samples at 24 kHz, two zero bytes each.
SilenceOf(ms) ==
    [kind |-> "silent", samples |-> (24000 * ms) \div 1000, wav |-> <<>>,
     payload |-> [size |-> 2 * ((24000 * ms) \div 1000), byte |-> 0]]

\* C30: every silent artifact of a run is the one file its duration and
\* sample rate determine, with an all-zero payload, and the step that
\* writes it (for a slide without notes, or for an abandoned synthesis)
\* leaves exactly that file, whether or not the path held a file before
\* and whether or not a model is loaded.
C30_SilenceDeterminedByDuration ==
    /\ [](\A p \in AllPaths :
            files[p].kind = "silent" =>
              /\ files[p] = SilenceOf(hold_duration)
              /\ files[p].payload.byte = 0)
    /\ [][op' = "silent" => files'[CurPath] = SilenceOf(hold_duration)]_vars
    /\ [][(pc = "gen" /\ exc' # "none" /\ k' = k + 1 /\ phase # "regen")
          => files'[CurPath] = SilenceOf(hold_duration)]_vars

\* A redo run over a temp directory holding the audio of all three slides
\* has returned: it wrote silence over the earlier audio of a listed slide
\* without notes, with the model loaded for another listed slide, whose
\* synthesis was abandoned and replaced by the same silence.
C30_Witness ==
    /\ mode = "redo"
    /\ pc = "returned"
    /\ model = "loaded"
    /\ Len(deck) = 3
    /\ image_files = 1..3
    /\ \E a, b \in redo_req :
         /\ a <= 3 /\ b <= 3
         /\ ~deck[a].notes.present
         /\ deck[b].notes.present
         /\ files[AudioPath(a)].kind = "silent"
         /\ files[AudioPath(b)] = files[AudioPath(a)]
    /\ \E c \in 1..3 : files[AudioPath(c)] = PreviousAudio

\* C31: the silent file holds the whole samples that fit the duration
\* (sample count <= sample rate x duration < sample count + 1), in one
\* channel of 16 bits, so that the data size is twice the sample count,
\* the RIFF size field is 36 + data size, which is the file size less 8,
\* and a zero duration leaves the 44 header bytes and no payload.
C31_WholeSamplesAndSizes ==
    text_out.kind = "silent" =>
        LET f == text_out.file
            tenths == text_in.tenths
            rate == text_in.sample_rate
        IN  /\ f.num_samples * 10000 <= rate * tenths
            /\ rate * tenths < (f.num_samples + 1) * 10000
            /\ f.channels = 1
            /\ f.bits_per_sample = 16
            /\ f.data_size = 2 * f.num_samples
            /\ f.riff_size = 36 + f.data_size
            /\ f.riff_size = f.file_size - 8
            /\ f.payload_byte = 0
            /\ tenths = 0 => (f.data_size = 0 /\ f.file_size = 44 /\ f.riff_size = 36)

\* A duration of 0.3 ms, seven samples and a fraction at 24 kHz, was
\* written as seven samples, fourteen bytes of payload.
C31_Witness ==
    /\ text_out.kind = "silent"
    /\ text_in.sample_rate = 24000
    /\ text_in.tenths = 3
    /\ text_out.file.num_samples = 7
    /\ text_out.file.data_size = 14
    /\ text_out.file.file_size = 58

\* The waveforms of all the chunks of slide a, in chunk order, generated
\* by one chunk loop.
WholeNarration(a, wav) ==
    /\ Len(wav) = NChunks(slides[a].notes.nsent)
    /\ Len(wav) >= 1
    /\ \A i \in 1..Len(wav) : wav[i].chunk = i /\ wav[i].phase = wav[1].phase

\* C32: at every point of the run the artifact of a slide, once written,
\* is either silence, holding no waveform, or the waveforms of all the
\* slide's chunks in chunk order, all generated by the same chunk loop;
\* and the buffer of the running chunk loop holds only chunks of that
\* loop, so that nothing of a failed attempt reaches a later one.
C32_NeverPartialNarration ==
    /\ \A a \in 1..Len(slides) :
         LET f == files[PathOf(a)]
         IN  \/ f.kind = "absent"
             \/ f.kind = "silent" /\ f.wav = <<>>
             \/ f.kind = "speech" /\ WholeNarration(a, f.wav)
    /\ \A i \in 1..Len(chunks) : chunks[i].chunk = i /\ chunks[i].phase = phase
    /\ pc = "gen" => Len(chunks) = j - 1

\* A run has returned in which the retry of a two-chunk slide, after the
\* downgrade, produced its audio, and a later two-chunk slide was
\* abandoned at its second chunk and is silent.
C32_Witness ==
    /\ pc = "returned"
    /\ exc = "none"
    /\ \E a, b \in 1..Len(slides) :
         /\ a < b
         /\ log[a].first = "oom"
         /\ log[a].retry = "ok"
         /\ files[PathOf(a)].kind = "speech"
         /\ Len(files[PathOf(a)].wav) = 2
         /\ files[PathOf(a)].wav[2].phase = "retry"
         /\ NChunks(slides[b].notes.nsent) = 2
         /\ log[b].first = "err"
         /\ files[PathOf(b)].kind = "silent"

IsPadded(raw, core) ==
    \E a, b \in 0..Len(raw) :
      /\ a + Len(core) + b = Len(raw)
      /\ \A i \in 1..a : raw[i] = " "
      /\ \A i \in (Len(raw) - b + 1)..Len(raw) : raw[i] = " "
      /\ \A i \in 1..Len(core) : raw[a + i] \in core[i]

\* C34: every answer takes one of the four branches keep, replay, quit,
\* regenerate, none is rejected or ignored, and the branch is regenerate
\* exactly when the answer is not, between blanks and in either case,
\* empty, "y", "r" or "q".
C34_UnknownAnswerRegenerates ==
    text_out.kind = "answer" =>
        LET raw == text_in.raw
            known == \/ IsPadded(raw, <<>>)
                     \/ IsPadded(raw, <<{"y", "Y"}>>)
                     \/ IsPadded(raw, <<{"r", "R"}>>)
                     \/ IsPadded(raw, <<{"q", "Q"}>>)
        IN  /\ text_out.branch \in {"keep", "replay", "quit", "regenerate"}
            /\ text_out.branch = "regenerate" <=> ~known
            /\ text_out.branch = "keep"
                 <=> (IsPadded(raw, <<>>) \/ IsPadded(raw, <<{"y", "Y"}>>))

\* The answer "y q", which the prompt does not offer, was read as
\* regenerate.
C34_Witness ==
    /\ text_out.kind = "answer"
    /\ text_in.raw = <<"y", " ", "q">>
    /\ text_out.branch = "regenerate"

\* C35 as stated: when the review of a slide ends, by keep or by a
\* regeneration that raised, the file is left as it is, it is the whole
\* narration of one chunk loop, it is what _play_audio was last called on,
\* and the operator heard it.
C35_KeptAudioWasHeard ==
    [][(op' = "keep" \/ (phase = "regen" /\ exc' # "none"))
       => (/\ files' = files
           /\ files[CurPath].kind = "speech"
           /\ WholeNarration(k, files[CurPath].wav)
           /\ last_play.art = files[CurPath]
           /\ last_play.heard)]_vars

\* C35, amended: when the review of a slide ends, by keep or by a
\* regeneration that raised, the file is left as it is, it is the whole
\* narration of one chunk loop, and it is what _play_audio was last
\* called on; during a review the file is written only by a chunk loop
\* that succeeded, and that waveform is handed to _play_audio in the same
\* step. Whether the operator heard it is not known to the run.
C35_KeptAudioWasHandedToPlayer ==
    /\ [][(op' = "keep" \/ (phase = "regen" /\ exc' # "none"))
          => (/\ files' = files
              /\ files[CurPath].kind = "speech"
              /\ WholeNarration(k, files[CurPath].wav)
              /\ last_play.art = files[CurPath])]_vars
    /\ [][((pc = "prompt" \/ phase = "regen") /\ files' # files)
          => (/\ op' = "combine"
              /\ exc' = "none"
              /\ files'[CurPath] = SavedSpeech(chunks)
              /\ last_play'.art = files'[CurPath]
              /\ pc' = "prompt")]_vars
    /\ [](pc = "prompt" => last_play.art = files[CurPath])

\* A regeneration has just raised after an earlier regeneration had
\* succeeded: the slide is left with the regenerated audio, which was
\* handed to the player, and the player had not played it.
C35_Witness ==
    /\ op = "chunk"
    /\ exc = "err"
    /\ pc = "loop"
    /\ k >= 2
    /\ files[PathOf(k - 1)].kind = "speech"
    /\ files[PathOf(k - 1)].wav[1].phase = "regen"
    /\ last_play.art = files[PathOf(k - 1)]
    /\ ~last_play.heard

\* The steps a slide can take at most without review: its start, one
\* model call per chunk and the end of the chunk loop, the latter two once
\* more for the retry.
SlideCost(a) == 2 * NChunks(slides[a].notes.nsent) + 4

RECURSIVE CostFrom(_)
CostFrom(a) == IF a > Len(slides) THEN 0 ELSE SlideCost(a) + CostFrom(a + 1)

\* The steps a run without review has left at most.
Rank ==
    CASE pc = "start" -> 2 + CostFrom(1)
      [] pc = "loop" -> 1 + CostFrom(k)
      [] pc = "gen" /\ phase = "first" ->
           1 + CostFrom(k + 1) + (CurChunks + 2) + (CurChunks - j + 2)
      [] pc = "gen" /\ phase = "retry" ->
           1 + CostFrom(k + 1) + (CurChunks - j + 2)
      [] OTHER -> 0

\* C36: without review every step of the audio stage lowers a measure
\* that starts at no more than 2 + the sum over the slides of (2 x chunk
\* count + 4) and never goes below zero, and a step can be taken as long
\* as the stage has not returned, so the stage returns after a bounded
\* number of steps; a slide's chunk loop is started once as first attempt
\* and at most once more as retry, each loop makes at most one model call
\* per chunk, and at most one slide of the run is retried.
C36_BoundedWorkWithoutReview ==
    /\ [][~interactive => Rank' < Rank]_vars
    /\ [](Rank >= 0 /\ Rank <= 2 + CostFrom(1))
    /\ [](~interactive => (pc = "returned" \/ ENABLED Next))
    /\ [](~interactive => pc \in {"start", "loop", "gen", "returned"})
    /\ [](\A a \in 1..Len(slides) : retries[a] <= 1)
    /\ [](Cardinality({a \in 1..Len(slides) : retries[a] >= 1}) <= 1)
    /\ [][callDev' # "none" => (pc = "gen" /\ j <= CurChunks)]_vars
    /\ [][(callDev' # "none" /\ exc' = "none") => (j' = j + 1 /\ phase' = phase)]_vars
    /\ [][(~interactive /\ pc' = "gen" /\ j' = 1 /\ (pc # "gen" \/ phase' # phase))
          => \/ (pc = "loop" /\ phase' = "first")
             \/ (phase = "first" /\ phase' = "retry" /\ retries[k] = 0)]_vars

\* A run without review has returned: one slide was retried after the
\* downgrade, a later one raised out-of-memory and got no second attempt.
C36_Witness ==
    /\ ~interactive
    /\ pc = "returned"
    /\ \E a, b \in 1..Len(slides) :
         /\ a < b
         /\ retries[a] = 1
         /\ log[a].retry \in {"ok", "oom", "err"}
         /\ log[b].first = "oom"
         /\ retries[b] = 0

\* Slide a has notes that split into no sentence.
ZeroSentences(a) == slides[a].notes.present /\ slides[a].notes.nsent = 0

\* C37: a slide whose notes are present but hold no sentence fails in its
\* first attempt without a model call: the step it takes out of the chunk
\* loop raises, writes silence of the hold duration to the slide's path,
\* appends the path and moves on to the next slide, with no playback, no
\* downgrade and no retry; such a slide is never at the review prompt and
\* no model call is ever made for it, whether or not a model was loaded.
C37_ZeroSentencesIsSilentFailure ==
    /\ [][(pc = "gen" /\ ZeroSentences(k))
          => (/\ callDev' = "none"
              /\ exc' = "err"
              /\ files' = [files EXCEPT ![CurPath] = generate_silent_wav(hold_duration)]
              /\ audio_paths' = Append(audio_paths, CurPath)
              /\ k' = k + 1
              /\ pc' = "loop"
              /\ played' = NoPlay
              /\ device' = device
              /\ downgrades' = downgrades
              /\ retries' = retries)]_vars
    /\ [][callDev' # "none" => ~ZeroSentences(k)]_vars
    /\ [](pc = "prompt" => ~ZeroSentences(k))
    /\ [](\A a \in 1..Len(slides) :
            (a < k /\ ZeroSentences(a))
                => (/\ IsHoldSilence(files[PathOf(a)])
                    /\ log[a].first = "err"
                    /\ log[a].retry = "none"
                    /\ retries[a] = 0))

\* An interactive run without a model has returned: its first slide had
\* empty notes and got silence, and the slides after it were handled.
C37_Witness ==
    /\ pc = "returned"
    /\ interactive
    /\ model = "none"
    /\ Len(slides) >= 2
    /\ ZeroSentences(1)
    /\ IsHoldSilence(files[PathOf(1)])
    /\ hold_duration > 0
    /\ Len(audio_paths) = Len(slides)

C39_SegmentOfOneSlide ==
    /\ \A e \in 1..Len(encodes) :
         /\ encodes[e].index = e
         /\ encodes[e].image = ImagePath(e)
         /\ encodes[e].audio = AudioPath(e)
         /\ e <= Len(deck)
         /\ encodes[e].video = deck[e].video
         /\ encodes[e].kind = (IF deck[e].video # "none" THEN "video" ELSE "still")
         /\ (stage \in {"assemble", "concat", "assembled"})
               => (e \in image_files /\ files[AudioPath(e)].kind # "absent")
    /\ \A e \in 1..Len(segments) : segments[e] = SegmentPath(e)

\* Redo-slides mode, the second slide alone redone: three segments have
\* been encoded from the rediscovered files, a still and a screencast
\* among them, the audio of the first and third as the earlier run left it.
C39_Witness ==
    /\ mode = "redo"
    /\ redo_req = {2}
    /\ op = "encode"
    /\ Len(encodes) = 3
    /\ Len(segments) = 3
    /\ encodes[1].kind = "still"
    /\ encodes[3].kind = "video"
    /\ files[AudioPath(1)] = PreviousAudio
    /\ files[AudioPath(2)] # PreviousAudio
    /\ files[AudioPath(3)] = PreviousAudio

\* The request names an item that is not a number, a number below 1 or a
\* number above the number of slides.
BadSlideList ==
    \/ \E t \in slide_list : ~t.digits
    \/ \E t \in slide_list : t.value < 1
    \/ \E t \in slide_list : t.value > Len(deck)

\* The temp directory has no image, no audio file, or different counts.
BadTempDir ==
    \/ image_files = {}
    \/ AudioOnDisk = {}
    \/ Cardinality(image_files) # Cardinality(AudioOnDisk)

\* C40: in redo-slides mode, when the list names an item that is not a
\* number, a number below 1 or above the number of slides, or the temp
\* directory holds no image, no audio file or different counts of them,
\* the step that examines the request ends the run with exit status 1 and
\* changes no file; the audio stage has not been entered, no model was
\* loaded and none called, every audio file is as the earlier run left it,
\* and no step follows.
C40_RejectedRedoTouchesNothing ==
    /\ [][(mode = "redo" /\ stage = "setup" /\ (BadSlideList \/ BadTempDir))
          => (/\ op' = "rejected"
              /\ stage' = "exit1"
              /\ files' = files
              /\ image_files' = image_files
              /\ pc' = "main"
              /\ model' = "unloaded"
              /\ callDev' = "none")]_vars
    /\ [](mode = "redo" /\ BadSlideList => pc = "main" /\ model = "unloaded")
    /\ []((mode = "redo" /\ op = "rejected" /\ pc = "main")
            => (/\ stage = "exit1"
                /\ audio_paths = <<>>
                /\ encodes = <<>>
                /\ output = "absent"
                /\ \A p \in AllPaths : files[p] \in {Absent, PreviousAudio}))
    /\ [][stage # "exit1"]_vars

\* A redo request for slide 0 of a deck has been rejected; the temp
\* directory holds the images and audio files of an earlier run.
C40_Witness ==
    /\ mode = "redo"
    /\ op = "rejected"
    /\ stage = "exit1"
    /\ NumberItem(0) \in slide_list
    /\ NumberItem(1) \in slide_list
    /\ ~BadTempDir
    /\ files[AudioPath(1)] = PreviousAudio

====
